---- MODULE Spec2Model ----
(***************************************************************************)
(* Model of the two income-tax engines of Tax-Calculator:                  *)
(*   MAIncomeTaxCalculator.calc   (src/ma_income_tax_calc.py)              *)
(*   USIncomeTaxCalculator.calc   (src/us_income_tax_calc.py)              *)
(* and of the driver that chains tax years through the carryforward file   *)
(* (src/tax_calc.py, main).                                                *)
(*                                                                         *)
(* Numbers.  The program computes in binary floating point.  The model     *)
(* computes in fixed point: every money amount is an integer number of     *)
(* cents, every tax rate an integer number of basis points (0.0001).  A    *)
(* product or quotient that is not a whole number of cents is rounded to   *)
(* the nearest cent, ties to even, which is what round(x, 2) does to the   *)
(* result record.  The percentages the result record derives by division  *)
(* (effective rates, ltcg_tax_rate) are formed from the cent-rounded       *)
(* amounts, so they can differ from the program's in the last place.       *)
(***************************************************************************)
EXTENDS Integers, Sequences, FiniteSets, TLC

VARIABLES
    tax_year,          \* the tax year the next run of main() is for
    carryforward_file, \* data/<tax_year>_carryforward.dat: the four amounts
    py_data,           \* the carryforward record the latest run read
    inputs,            \* the arguments of the latest engine call(s)
    ma_taxes,          \* the latest ma_tax_result
    us_taxes,          \* the latest us_tax_result
    locals,            \* the local variables of the latest calc calls
    probe              \* the latest calls of a helper method on its own

vars == <<tax_year, carryforward_file, py_data, inputs, ma_taxes, us_taxes,
          locals, probe>>

----------------------------------------------------------------------------
(* Fixed-point arithmetic *)

\* Python's None (a bracket's open-ended max, an absent threshold or override).
None == -1

\* A value Python treats as true in `x and ...`: neither None nor 0.
Truthy(x) == x # None /\ x # 0

\* The one element of a singleton set: {f(v) : v \in {e}} computes e once and
\* names its value v, as an assignment to a local does.
Only(S) == CHOOSE x \in S : TRUE

Max(a, b) == IF a >= b THEN a ELSE b
Min(a, b) == IF a <= b THEN a ELSE b
Abs(a) == IF a < 0 THEN 0 - a ELSE a

\* Dollars to cents.
Dollars(d) == d * 100

\* <<q, r>> with a * b = q * c + r and 0 <= r < c, for b >= 0 and
\* 0 < c < 2^29.  No intermediate value leaves 32 bits: b is taken digit by
\* digit in the largest radix for which radix * c stays below 2^30.
RECURSIVE MulDivQR(_, _, _)
MulDivQR(a, b, c) ==
    LET radix == Max(2, 1073741823 \div c)
        digit == b % radix
        h == IF b < radix THEN <<0, 0>> ELSE MulDivQR(a, b \div radix, c)
        t == radix * h[2] + digit * (a % c)
    IN  <<radix * h[1] + digit * (a \div c) + (t \div c), t % c>>

\* A quotient and remainder rounded to the nearest integer, ties to even.
RoundQR(qr, c) ==
    IF 2 * qr[2] < c THEN qr[1]
    ELSE IF 2 * qr[2] > c THEN qr[1] + 1
    ELSE IF qr[1] % 2 = 0 THEN qr[1] ELSE qr[1] + 1

\* a * b / c to the nearest integer (b >= 0, c > 0; a of either sign).
MulDiv(a, b, c) == RoundQR(MulDivQR(a, b, c), c)

\* amount (cents) * rate (basis points), in cents.
TimesRate(amount, rate) == MulDiv(amount, rate, 10000)


----------------------------------------------------------------------------
(* USIncomeTaxCalculator._calculate_bracket_tax *)

\* A walk that takes an amount equal to a bracket's max to lie beyond it.
RECURSIVE BracketLoopStrict(_, _, _, _, _)
BracketLoopStrict(income, brackets, i, total_tax, marginal_rate) ==
    IF i > Len(brackets)
    THEN [tax |-> total_tax, marginal_rate |-> marginal_rate]
    ELSE LET bracket_min == brackets[i].min
             bracket_max == brackets[i].max
             rate        == brackets[i].rate
         IN  IF income <= bracket_min
             THEN [tax |-> total_tax, marginal_rate |-> marginal_rate]
             ELSE LET top == bracket_max = None
                      within == ~top /\ income < bracket_max
                      taxable_in_bracket ==
                          IF top \/ within THEN income - bracket_min
                          ELSE bracket_max - bracket_min
                      new_rate == IF top \/ within THEN rate ELSE marginal_rate
                      new_tax == total_tax + TimesRate(taxable_in_bracket, rate)
                  IN  IF Truthy(bracket_max) /\ income < bracket_max
                      THEN [tax |-> new_tax, marginal_rate |-> new_rate]
                      ELSE BracketLoopStrict(income, brackets, i + 1, new_tax, new_rate)

\* A walk that keeps only the tax of the last bracket it reaches.
RECURSIVE BracketLoopLastOnly(_, _, _, _, _)
BracketLoopLastOnly(income, brackets, i, total_tax, marginal_rate) ==
    IF i > Len(brackets)
    THEN [tax |-> total_tax, marginal_rate |-> marginal_rate]
    ELSE LET bracket_min == brackets[i].min
             bracket_max == brackets[i].max
             rate        == brackets[i].rate
         IN  IF income <= bracket_min
             THEN [tax |-> total_tax, marginal_rate |-> marginal_rate]
             ELSE LET top == bracket_max = None
                      within == ~top /\ income <= bracket_max
                      taxable_in_bracket ==
                          IF top \/ within THEN income - bracket_min
                          ELSE bracket_max - bracket_min
                      new_rate == IF top \/ within THEN rate ELSE marginal_rate
                      new_tax == TimesRate(taxable_in_bracket, rate)
                  IN  IF Truthy(bracket_max) /\ income <= bracket_max
                      THEN [tax |-> new_tax, marginal_rate |-> new_rate]
                      ELSE BracketLoopLastOnly(income, brackets, i + 1, new_tax, new_rate)

\* The for loop over the brackets, from bracket i on, with the loop's two
\* accumulators.  A bracket is [min, max, rate], max = None for the top one.
RECURSIVE BracketLoop(_, _, _, _, _)
BracketLoop(income, brackets, i, total_tax, marginal_rate) ==
    IF i > Len(brackets)
    THEN [tax |-> total_tax, marginal_rate |-> marginal_rate]
    ELSE LET bracket_min == brackets[i].min
             bracket_max == brackets[i].max
             rate        == brackets[i].rate
         IN  IF income <= bracket_min
             THEN [tax |-> total_tax, marginal_rate |-> marginal_rate]
             ELSE LET top == bracket_max = None
                      within == ~top /\ income <= bracket_max
                      taxable_in_bracket ==
                          IF top \/ within THEN income - bracket_min
                          ELSE bracket_max - bracket_min
                      new_rate == IF top \/ within THEN rate ELSE marginal_rate
                      new_tax == total_tax + TimesRate(taxable_in_bracket, rate)
                  IN  IF Truthy(bracket_max) /\ income <= bracket_max
                      THEN [tax |-> new_tax, marginal_rate |-> new_rate]
                      ELSE BracketLoop(income, brackets, i + 1, new_tax, new_rate)

calculate_bracket_tax(income, brackets) ==
    IF income <= 0
    THEN [tax |-> 0, marginal_rate |-> 0]
    ELSE BracketLoop(income, brackets, 1, 0, 0)

----------------------------------------------------------------------------
(* MAIncomeTaxCalculator (src/ma_income_tax_calc.py) *)

\* A raised exception, in place of a result.
ValueError == [error |-> "ValueError"]
KeyError == [error |-> "KeyError"]
IsError(r) == "error" \in DOMAIN r

\* No call made yet, or no result because the call raised.
NoResult == [none |-> TRUE]
NoInputs == [none |-> TRUE]
HasResult(r) == "none" \notin DOMAIN r /\ ~IsError(r)

\* A netting that zeroes the loss it offsets without reducing the gain.
SignNettingKeepsGain(short_term_gains, long_term_gains) ==
    IF short_term_gains > 0 /\ long_term_gains < 0
    THEN [net_short_term |-> short_term_gains,
          net_long_term  |-> long_term_gains + Min(short_term_gains, Abs(long_term_gains))]
    ELSE IF short_term_gains < 0 /\ long_term_gains > 0
    THEN [net_short_term |-> short_term_gains + Min(long_term_gains, Abs(short_term_gains)),
          net_long_term  |-> long_term_gains]
    ELSE [net_short_term |-> short_term_gains, net_long_term |-> long_term_gains]

\* Lines 93-103: a gain and a loss of opposite signs are netted.
SignNetting(short_term_gains, long_term_gains) ==
    IF short_term_gains > 0 /\ long_term_gains < 0
    THEN LET offset_amount == Min(short_term_gains, Abs(long_term_gains))
         IN  [net_short_term |-> short_term_gains - offset_amount,
              net_long_term  |-> long_term_gains + offset_amount]
    ELSE IF short_term_gains < 0 /\ long_term_gains > 0
    THEN LET offset_amount == Min(long_term_gains, Abs(short_term_gains))
         IN  [net_short_term |-> short_term_gains + offset_amount,
              net_long_term  |-> long_term_gains - offset_amount]
    ELSE [net_short_term |-> short_term_gains, net_long_term |-> long_term_gains]

\* An absorption that applies the carryforward to the long-term balance first.
ApplyCarryforwardLongFirst(n, py_capital_loss_carryforward) ==
    LET loss_carryforward == py_capital_loss_carryforward
        offset_long == IF loss_carryforward > 0 /\ n.net_long_term > 0
                       THEN Min(n.net_long_term, loss_carryforward) ELSE 0
        left == loss_carryforward - offset_long
        offset_short == IF loss_carryforward > 0 /\ left > 0 /\ n.net_short_term > 0
                        THEN Min(n.net_short_term, left) ELSE 0
    IN  [net_short_term |-> n.net_short_term - offset_short,
         net_long_term  |-> n.net_long_term - offset_long,
         loss_carryforward |-> left - offset_short]

\* Lines 105-115: the prior-year carryforward is applied to the short-term
\* gain, then what is left of it to the long-term gain.
ApplyCarryforward(n, py_capital_loss_carryforward) ==
    LET loss_carryforward == py_capital_loss_carryforward
        offset_short == IF loss_carryforward > 0 /\ n.net_short_term > 0
                        THEN Min(n.net_short_term, loss_carryforward) ELSE 0
        left == loss_carryforward - offset_short
        offset_long == IF loss_carryforward > 0 /\ left > 0 /\ n.net_long_term > 0
                       THEN Min(n.net_long_term, left) ELSE 0
    IN  [net_short_term |-> n.net_short_term - offset_short,
         net_long_term  |-> n.net_long_term - offset_long,
         loss_carryforward |-> left - offset_long]

\* An offset that consumes no more loss than there is investment income to
\* reduce.
InvestmentIncomeOffsetByIncome(c, investment_income, max_int_div_adj) ==
    LET offset_balance == c.loss_carryforward - Min(0, c.net_short_term)
                                              - Min(0, c.net_long_term)
        investment_income_adjustment ==
            IF offset_balance > 0
            THEN Min(Min(max_int_div_adj, offset_balance), Max(0, investment_income))
            ELSE 0
        remaining == offset_balance - investment_income_adjustment
    IN  [offset_balance |-> offset_balance,
         adjusted_investment_income |-> investment_income - investment_income_adjustment,
         capital_loss_carryforward |-> IF remaining > 0 THEN remaining ELSE 0]

\* Lines 117-132: the losses left reduce investment income, up to
\* max_int_div_adj; the rest is next year's carryforward.
InvestmentIncomeOffset(c, investment_income, max_int_div_adj) ==
    LET offset_balance == c.loss_carryforward - Min(0, c.net_short_term)
                                              - Min(0, c.net_long_term)
        investment_income_adjustment ==
            IF offset_balance > 0 THEN Min(max_int_div_adj, offset_balance) ELSE 0
        adjusted_investment_income ==
            IF offset_balance > 0
            THEN Max(0, investment_income - investment_income_adjustment)
            ELSE investment_income
        remaining == offset_balance - investment_income_adjustment
    IN  [offset_balance |-> offset_balance,
         adjusted_investment_income |-> adjusted_investment_income,
         capital_loss_carryforward |-> IF remaining > 0 THEN remaining ELSE 0]

\* A surtax that applies only above the threshold, not at it.
IsSurtaxAboveOnly(surtax_threshold, agi) ==
    Truthy(surtax_threshold) /\ agi > surtax_threshold

\* Lines 150-153: the surtax applies from the threshold on, when there is one.
\* is_surtax is the value of `surtax_threshold and agi >= surtax_threshold`,
\* recorded as the boolean Python takes it for.
IsSurtax(surtax_threshold, agi) ==
    Truthy(surtax_threshold) /\ agi >= surtax_threshold

\* An allocation that uses the exemption against the long-term gains first.
AllocateExemptionLongFirst(agi, standard_exemption, taxable_short_term_gains, taxable_long_term_gains, ordinary_and_investment) ==
    IF agi > standard_exemption
    THEN LET taxable_long_term_final ==
                 Max(0, taxable_long_term_gains - standard_exemption)
             deduction_remaining1 ==
                 Max(0, standard_exemption - taxable_long_term_gains)
             taxable_short_term_final ==
                 Max(0, taxable_short_term_gains - deduction_remaining1)
             deduction_remaining2 ==
                 Max(0, deduction_remaining1 - taxable_short_term_gains)
         IN  [taxable_ordinary_income |->
                  Max(0, ordinary_and_investment - deduction_remaining2),
              taxable_long_term_final |-> taxable_long_term_final,
              taxable_short_term_final |-> taxable_short_term_final]
    ELSE [taxable_ordinary_income |-> 0,
          taxable_long_term_final |-> 0,
          taxable_short_term_final |-> 0]

\* Lines 155-175: the standard exemption is used against the short-term gains,
\* then the long-term gains, then ordinary and investment income.
AllocateExemption(agi, standard_exemption, taxable_short_term_gains, taxable_long_term_gains, ordinary_and_investment) ==
    IF agi > standard_exemption
    THEN LET deduction_remaining0 == standard_exemption
             taxable_short_term_final ==
                 Max(0, taxable_short_term_gains - deduction_remaining0)
             deduction_remaining1 ==
                 Max(0, deduction_remaining0 - taxable_short_term_gains)
             taxable_long_term_final ==
                 Max(0, taxable_long_term_gains - deduction_remaining1)
             deduction_remaining2 ==
                 Max(0, deduction_remaining1 - taxable_long_term_gains)
         IN  [taxable_ordinary_income |->
                  Max(0, ordinary_and_investment - deduction_remaining2),
              taxable_long_term_final |-> taxable_long_term_final,
              taxable_short_term_final |-> taxable_short_term_final]
    ELSE [taxable_ordinary_income |-> 0,
          taxable_long_term_final |-> 0,
          taxable_short_term_final |-> 0]

\* Lines 181-184: the three rates, each with the surtax when it applies.
MARates(year_params, is_surtax) ==
    LET surtax == IF is_surtax THEN year_params.surtax ELSE 0
    IN  [ordinary_rate   |-> year_params.ordinary_rate + surtax,
         long_term_rate  |-> year_params.long_term_rate + surtax,
         short_term_rate |-> year_params.short_term_rate + surtax]

\* The local variables of calc, lines 81-190, for the year's parameters and
\* the exemption already looked up.
MALocals(year_params, standard_exemption, a) ==
    LET n == SignNetting(a.short_term_gains, a.long_term_gains)
        c == ApplyCarryforward(n, a.py_capital_loss_carryforward)
        o == InvestmentIncomeOffset(c, a.investment_income,
                                    year_params.max_int_div_adj)
        taxable_short_term_gains == Max(0, c.net_short_term)
        taxable_long_term_gains == Max(0, c.net_long_term)
        adjusted_ordinary_income == Max(0, a.ordinary_income - a.deductions)
        total_capital_gains == taxable_short_term_gains + taxable_long_term_gains
        agi == adjusted_ordinary_income + o.adjusted_investment_income
                   + total_capital_gains
        is_surtax == IsSurtax(year_params.surtax_threshold, agi)
        t == AllocateExemption(agi, standard_exemption, taxable_short_term_gains,
                 taxable_long_term_gains,
                 adjusted_ordinary_income + o.adjusted_investment_income)
        r == MARates(year_params, is_surtax)
        ordinary_tax == TimesRate(t.taxable_ordinary_income, r.ordinary_rate)
        long_term_tax == TimesRate(t.taxable_long_term_final, r.long_term_rate)
        short_term_tax == TimesRate(t.taxable_short_term_final, r.short_term_rate)
    IN  [standard_exemption |-> standard_exemption,
         netted_short_term |-> n.net_short_term,
         netted_long_term |-> n.net_long_term,
         net_short_term |-> c.net_short_term,
         net_long_term |-> c.net_long_term,
         loss_carryforward |-> c.loss_carryforward,
         offset_balance |-> o.offset_balance,
         adjusted_investment_income |-> o.adjusted_investment_income,
         capital_loss_carryforward |-> o.capital_loss_carryforward,
         taxable_short_term_gains |-> taxable_short_term_gains,
         taxable_long_term_gains |-> taxable_long_term_gains,
         adjusted_ordinary_income |-> adjusted_ordinary_income,
         agi |-> agi,
         is_surtax |-> is_surtax,
         taxable_ordinary_income |-> t.taxable_ordinary_income,
         taxable_long_term_final |-> t.taxable_long_term_final,
         taxable_short_term_final |-> t.taxable_short_term_final,
         ordinary_rate |-> r.ordinary_rate,
         long_term_rate |-> r.long_term_rate,
         short_term_rate |-> r.short_term_rate,
         ordinary_tax |-> ordinary_tax,
         long_term_tax |-> long_term_tax,
         short_term_tax |-> short_term_tax,
         total_income_tax |-> ordinary_tax + long_term_tax + short_term_tax]

\* Lines 192-208: the ma_tax_result built from the locals.  Amounts are in
\* cents and rates in basis points, so round(x, 2) and round(x, 4) keep them.
ma_tax_result(a, l) ==
    [tax_year |-> a.tax_year,
     filing_status |-> a.filing_status,
     ordinary_tax |-> l.ordinary_tax,
     ltcg_tax |-> l.long_term_tax,
     stcg_tax |-> l.short_term_tax,
     ma_income_tax |-> l.total_income_tax,
     taxable_income |-> l.taxable_ordinary_income + l.taxable_long_term_final
                            + l.taxable_short_term_final,
     taxable_ordinary |-> l.taxable_ordinary_income,
     taxable_long_term |-> l.taxable_long_term_final,
     taxable_short_term |-> l.taxable_short_term_final,
     is_surtax |-> l.is_surtax,
     ordinary_rate |-> l.ordinary_rate,
     long_term_rate |-> l.long_term_rate,
     short_term_rate |-> l.short_term_rate,
     capital_loss_carryforward |-> l.capital_loss_carryforward]

\* get_year_params and get_standard_deduction, lines 40-51, and the override
\* of lines 84-88: the exemption calc uses, or the exception raised.
MAExemption(tax_years, a) ==
    IF a.tax_year \notin DOMAIN tax_years THEN ValueError
    ELSE IF a.custom_standard_deduction # None
    THEN [standard_exemption |-> a.custom_standard_deduction]
    ELSE IF a.filing_status \notin DOMAIN tax_years[a.tax_year].standard_exemption
    THEN ValueError
    ELSE [standard_exemption |->
              tax_years[a.tax_year].standard_exemption[a.filing_status]]

\* MAIncomeTaxCalculator.calc, lines 53-208: what it returns (or raises),
\* with its local variables.
ma_calc(tax_years, a) ==
    LET e == MAExemption(tax_years, a)
    IN  IF IsError(e) THEN [result |-> e, locals |-> NoResult]
        ELSE Only({[result |-> ma_tax_result(a, l), locals |-> l] :
                      l \in {MALocals(tax_years[a.tax_year], e.standard_exemption, a)}})

----------------------------------------------------------------------------
(* USIncomeTaxCalculator (src/us_income_tax_calc.py) *)

\* Program constants of calc and its helpers, in dollars.
CapitalLossLimit == 3000
PostTCJALimit == 750000
PostTCJALimitSeparate == 375000
PreTCJALimit == 1000000
PreTCJALimitSeparate == 500000
\* The medical floor, 0.075 of AGI, in thousandths.
MedicalFloorRate == 75

\* amount * num / den to the nearest cent, for den > 0 and num of either sign.
TimesRatio(amount, num, den) ==
    IF num >= 0 THEN MulDiv(amount, num, den)
    ELSE MulDiv(0 - amount, 0 - num, den)

\* _calculate_niit, lines 116-141.
calculate_niit(investment_income, agi, threshold, rate) ==
    IF agi <= threshold THEN 0
    ELSE LET excess_agi == agi - threshold
             taxable_investment_income == Min(investment_income, excess_agi)
         IN  TimesRate(taxable_investment_income, rate)

\* A deduction by the formula alone, without the return for no expenses.
MedicalDeductionFormulaOnly(medical_expenses, agi) ==
    Max(0, medical_expenses - MulDiv(agi, MedicalFloorRate, 1000))

\* _calculate_medical_expense_deduction, lines 143-172.
calculate_medical_expense_deduction(medical_expenses, agi) ==
    IF medical_expenses <= 0 THEN 0
    ELSE LET agi_threshold == MulDiv(agi, MedicalFloorRate, 1000)
         IN  IF medical_expenses > agi_threshold
             THEN medical_expenses - agi_threshold
             ELSE 0

\* A deduction of the year's expense alone, with the prior-year carryover
\* raising the cap instead of adding to the interest to deduct.
InvestmentInterestCapPlusCarryover(investment_interest_expense, investment_income, stcg, py_carryover) ==
    LET cap == investment_income + Max(0, stcg) + py_carryover
        allowable_deduction == Min(Max(0, investment_interest_expense), Max(0, cap))
    IN  [allowable_deduction |-> allowable_deduction,
         carryover |-> Max(0, investment_interest_expense) - allowable_deduction]

\* A deduction that carries on only what is left of the year's own expense
\* once the limit applies.
InvestmentInterestPriorDropped(investment_interest_expense, investment_income, stcg, py_carryover) ==
    IF investment_interest_expense <= 0 /\ py_carryover <= 0
    THEN [allowable_deduction |-> 0, carryover |-> 0]
    ELSE LET total_inv_inc == investment_income + Max(0, stcg)
             total_investment_interest == investment_interest_expense + py_carryover
         IN  IF total_inv_inc >= total_investment_interest
             THEN [allowable_deduction |-> total_investment_interest,
                   carryover |-> 0]
             ELSE [allowable_deduction |-> total_inv_inc,
                   carryover |-> Max(0, investment_interest_expense - total_inv_inc)]

\* _calculate_investment_interest_deduction, lines 174-193.
calculate_investment_interest_deduction(investment_interest_expense, investment_income, stcg, py_carryover) ==
    IF investment_interest_expense <= 0 /\ py_carryover <= 0
    THEN [allowable_deduction |-> 0, carryover |-> 0]
    ELSE LET total_inv_inc == investment_income + Max(0, stcg)
             total_investment_interest == investment_interest_expense + py_carryover
         IN  IF total_inv_inc >= total_investment_interest
             THEN [allowable_deduction |-> total_investment_interest,
                   carryover |-> 0]
             ELSE [allowable_deduction |-> total_inv_inc,
                   carryover |-> total_investment_interest - total_inv_inc]

\* A limit chosen by the origination year alone, 2017 counting as before the
\* change whatever the balance.
AcquisitionLimitByYearOnly(mortgage_origination_year, mortgage_balance, filing_status) ==
    IF mortgage_origination_year >= 2018
    THEN IF filing_status = "married_filing_separately"
         THEN Dollars(PostTCJALimitSeparate) ELSE Dollars(PostTCJALimit)
    ELSE IF filing_status = "married_filing_separately"
         THEN Dollars(PreTCJALimitSeparate) ELSE Dollars(PreTCJALimit)

\* Lines 225-238: the acquisition-debt limit, in cents.
AcquisitionLimit(mortgage_origination_year, mortgage_balance, filing_status) ==
    IF mortgage_origination_year >= 2018
       \/ (mortgage_origination_year = 2017 /\ mortgage_balance > 0)
    THEN IF filing_status = "married_filing_separately"
         THEN Dollars(PostTCJALimitSeparate) ELSE Dollars(PostTCJALimit)
    ELSE IF filing_status = "married_filing_separately"
         THEN Dollars(PreTCJALimitSeparate) ELSE Dollars(PreTCJALimit)

\* _calculate_mortgage_interest_deduction, lines 195-250.  mortgage_rate is in
\* units of 0.00001 (3375 for 0.03375).
calculate_mortgage_interest_deduction(mortgage_interest, mortgage_rate, mortgage_origination_year, filing_status) ==
    IF mortgage_interest <= 0 THEN 0
    ELSE LET mortgage_balance ==
                 IF mortgage_rate > 0
                 THEN MulDiv(mortgage_interest, 100000, mortgage_rate) ELSE 0
             acquisition_limit ==
                 AcquisitionLimit(mortgage_origination_year, mortgage_balance,
                                  filing_status)
         IN  IF mortgage_balance <= acquisition_limit
             THEN mortgage_interest
             ELSE IF mortgage_balance > 0
                  THEN MulDiv(mortgage_interest, acquisition_limit, mortgage_balance)
                  ELSE 0

\* A loop that takes no account of the ordinary income below the gains: each
\* bracket is filled from its own min.
RECURSIVE CapitalGainsLoopUnstacked(_, _, _, _, _, _, _)
CapitalGainsLoopUnstacked(brackets, i, current_income_level, taxable_capital_gains, total_taxable_income, ltcg_tax, taxed) ==
    IF i > Len(brackets) THEN [ltcg_tax |-> ltcg_tax, taxed |-> taxed]
    ELSE LET bracket_min == brackets[i].min
             bracket_max == brackets[i].max
             rate        == brackets[i].rate
             upper == IF bracket_max = None THEN total_taxable_income
                      ELSE Min(total_taxable_income, bracket_max)
             taxable_in_bracket == Max(0, upper - bracket_min)
             amount == Min(taxable_in_bracket, taxable_capital_gains)
         IN  CapitalGainsLoopUnstacked(brackets, i + 1, current_income_level,
                 taxable_capital_gains, total_taxable_income,
                 ltcg_tax + TimesRate(amount, rate), Append(taxed, amount))

\* The for loop of _calculate_capital_gains_tax, lines 270-277, from bracket i
\* on.  current_income_level = None stands for float('inf'), which it becomes
\* after the open-ended bracket.  taxed lists, bracket by bracket, the amount
\* min(taxable_in_bracket, taxable_capital_gains) that line 274 multiplies by
\* the bracket's rate.
RECURSIVE CapitalGainsLoop(_, _, _, _, _, _, _)
CapitalGainsLoop(brackets, i, current_income_level, taxable_capital_gains, total_taxable_income, ltcg_tax, taxed) ==
    IF i > Len(brackets) THEN [ltcg_tax |-> ltcg_tax, taxed |-> taxed]
    ELSE LET bracket_min == brackets[i].min
             bracket_max == brackets[i].max
             rate        == brackets[i].rate
             upper == IF bracket_max = None THEN total_taxable_income
                      ELSE Min(total_taxable_income, bracket_max)
             taxable_in_bracket ==
                 IF current_income_level = None THEN 0
                 ELSE Max(0, upper - Max(bracket_min, current_income_level))
             amount == Min(taxable_in_bracket, taxable_capital_gains)
             next_level ==
                 IF bracket_max = None \/ current_income_level = None THEN None
                 ELSE Max(current_income_level, bracket_max)
         IN  CapitalGainsLoop(brackets, i + 1, next_level, taxable_capital_gains,
                 total_taxable_income,
                 ltcg_tax + TimesRate(amount, rate), Append(taxed, amount))

\* _calculate_capital_gains_tax, lines 252-279.  ltcg_tax_rate is in basis
\* points.
calculate_capital_gains_tax(taxable_ordinary_income, taxable_capital_gains, total_taxable_income, brackets) ==
    Only({[ltcg_tax |-> loop.ltcg_tax,
           taxed |-> loop.taxed,
           ltcg_tax_rate |-> IF taxable_capital_gains > 0
                             THEN MulDiv(loop.ltcg_tax, 10000, taxable_capital_gains)
                             ELSE 0] :
             loop \in {IF taxable_capital_gains > 0
                       THEN CapitalGainsLoop(brackets, 1, taxable_ordinary_income,
                                taxable_capital_gains, total_taxable_income,
                                0, <<>>)
                       ELSE [ltcg_tax |-> 0, taxed |-> <<>>]}})

\* Lines 351-379 of calc: the prior-year loss carryforwards are subtracted, the
\* net capital result is formed, and a net loss is deducted up to the limit
\* and the rest split between the two carryforwards.  The two ratios are the
\* program's: ltcg_loss_ratio = abs(cg_long_term) / net_ltcg, a fraction with
\* the sign of net_ltcg, and stcg_loss_ratio = 100 - ltcg_loss_ratio; each
\* carryforward is capital_loss_carry_forward * ratio * 0.01.
CapitalLoss(cg_short_term0, cg_long_term0, other_income, py_short_term_loss_carryforward, py_long_term_loss_carryforward) ==
    LET cg_long_term == cg_long_term0 - py_long_term_loss_carryforward
        cg_short_term == cg_short_term0 - py_short_term_loss_carryforward
        net_ltcg == cg_long_term + Min(0, cg_short_term)
        ordinary_income == other_income + Max(0, cg_short_term)
    IN  IF net_ltcg < 0
        THEN LET capital_loss_income_deduction ==
                     Min(Abs(net_ltcg), Dollars(CapitalLossLimit))
                 capital_loss_carry_forward ==
                     Abs(net_ltcg) - capital_loss_income_deduction
                 \* ltcg_loss_ratio = ltcg_num / ltcg_den, with ltcg_den > 0
                 ltcg_num == IF cg_long_term < 0 THEN 0 - Abs(cg_long_term) ELSE 0
                 ltcg_den == Abs(net_ltcg)
                 \* stcg_loss_ratio = stcg_num / ltcg_den
                 stcg_num == IF cg_short_term < 0 THEN 100 * ltcg_den - ltcg_num
                             ELSE 0
             IN  [cg_long_term |-> cg_long_term,
                  cg_short_term |-> cg_short_term,
                  net_ltcg |-> net_ltcg,
                  ordinary_income |-> ordinary_income,
                  capital_loss_income_deduction |-> capital_loss_income_deduction,
                  agi |-> ordinary_income - capital_loss_income_deduction,
                  capital_loss_carry_forward |-> capital_loss_carry_forward,
                  lt_loss_carry_forward |->
                      TimesRatio(capital_loss_carry_forward, ltcg_num, ltcg_den * 100),
                  st_loss_carry_forward |->
                      TimesRatio(capital_loss_carry_forward, stcg_num, ltcg_den * 100)]
        ELSE [cg_long_term |-> cg_long_term,
              cg_short_term |-> cg_short_term,
              net_ltcg |-> net_ltcg,
              ordinary_income |-> ordinary_income,
              capital_loss_income_deduction |-> 0,
              agi |-> ordinary_income + Max(0, net_ltcg),
              capital_loss_carry_forward |-> 0,
              lt_loss_carry_forward |-> 0,
              st_loss_carry_forward |-> 0]

\* A selection that itemizes on a tie.
SelectDeductionTieItemized(itemized_deductions, standard_deduction) ==
    IF itemized_deductions >= standard_deduction
    THEN [total_deductions |-> itemized_deductions, deduction_used |-> "itemized"]
    ELSE [total_deductions |-> standard_deduction, deduction_used |-> "standard"]

\* Lines 419-425: the larger of the two deductions, the standard one on a tie.
SelectDeduction(itemized_deductions, standard_deduction) ==
    IF itemized_deductions > standard_deduction
    THEN [total_deductions |-> itemized_deductions, deduction_used |-> "itemized"]
    ELSE [total_deductions |-> standard_deduction, deduction_used |-> "standard"]

\* Lines 387-417: the itemized deductions, by component.
ItemizedDeductions(year_data, a, k, agi) ==
    LET salt_limit == year_data.salt_deduction.max
        inv == calculate_investment_interest_deduction(a.deduct_margin_int,
                   a.income_int + a.income_div - a.income_div_qualified
                       + a.income_inv_other,
                   k.cg_short_term, a.py_inv_int_carryforward)
    IN  [salt_deduction |->
             Min(a.deduct_property_tax + a.deduct_state_income_tax, salt_limit),
         mortgage_interest_deduction |->
             calculate_mortgage_interest_deduction(a.deduct_mortgage_int,
                 a.deduct_mortgage_rate, a.deduct_mortgage_orig_year,
                 a.filing_status),
         investment_int_deduction |-> inv.allowable_deduction,
         inv_int_carryforward |-> inv.carryover,
         medical_exp_deduction |->
             calculate_medical_expense_deduction(a.deduct_medical, agi),
         charity |-> a.deduct_charity]

SumItemized(d) ==
    d.salt_deduction + d.mortgage_interest_deduction + d.investment_int_deduction
        + d.medical_exp_deduction + d.charity

\* The local variables of calc, lines 341-454, for the year's data.
USLocals(year_data, a) ==
    LET fs == a.filing_status
        other_income == a.income_wages + a.income_int + a.income_div
                            + a.income_inv_other + a.income_other
        gross_income == other_income + Max(0, a.cg_short_term)
        gross_ltcg == a.cg_long_term + Min(0, a.cg_short_term)
        k == CapitalLoss(a.cg_short_term, a.cg_long_term, other_income,
                         a.py_short_term_loss_carryforward,
                         a.py_long_term_loss_carryforward)
        d == ItemizedDeductions(year_data, a, k, k.agi)
        itemized_deductions == SumItemized(d)
        standard_deduction == year_data.standard_deductions[fs]
        s == SelectDeduction(itemized_deductions, standard_deduction)
        taxable_ordinary_income ==
            Max(0, k.ordinary_income - s.total_deductions - a.income_div_qualified)
        taxable_capital_gains == Max(0, k.net_ltcg) + a.income_div_qualified
        total_taxable_income == taxable_ordinary_income + taxable_capital_gains
        o == calculate_bracket_tax(taxable_ordinary_income,
                                   year_data.ordinary_income_brackets[fs])
        g == calculate_capital_gains_tax(taxable_ordinary_income,
                 taxable_capital_gains, total_taxable_income,
                 year_data.long_term_capital_gains_brackets[fs])
        investment_income == a.income_int + a.income_div + k.cg_long_term
                                 + k.cg_short_term + a.income_inv_other
        niit_tax == calculate_niit(investment_income, k.agi,
                        year_data.net_investment_income_tax.thresholds[fs],
                        year_data.net_investment_income_tax.rate)
        total_federal_tax == o.tax + g.ltcg_tax + niit_tax
    IN  [gross_income |-> gross_income,
         gross_ltcg |-> gross_ltcg,
         capital |-> k,
         deductions |-> d,
         itemized_deductions |-> itemized_deductions,
         standard_deduction |-> standard_deduction,
         total_deductions |-> s.total_deductions,
         deduction_used |-> s.deduction_used,
         taxable_ordinary_income |-> taxable_ordinary_income,
         taxable_capital_gains |-> taxable_capital_gains,
         total_taxable_income |-> total_taxable_income,
         ordinary_tax |-> o.tax,
         marginal_rate |-> o.marginal_rate,
         ltcg_tax |-> g.ltcg_tax,
         ltcg_taxed |-> g.taxed,
         ltcg_tax_rate |-> g.ltcg_tax_rate,
         investment_income |-> investment_income,
         niit_tax |-> niit_tax,
         total_federal_tax |-> total_federal_tax,
         effective_tax_rate_agi |->
             IF k.agi > 0 THEN MulDiv(total_federal_tax, 10000, k.agi) ELSE 0,
         effective_tax_rate |->
             IF total_taxable_income > 0
             THEN MulDiv(total_federal_tax, 10000, total_taxable_income) ELSE 0]

\* Lines 456-479: the us_tax_result built from the locals.  Amounts are in
\* cents and the four rates in basis points (percent to two places).
us_tax_result(a, l) ==
    [tax_year |-> a.tax_year,
     filing_status |-> a.filing_status,
     gross_ordinary_income |-> l.capital.ordinary_income,
     gross_ltcg |-> l.capital.net_ltcg,
     ordinary_tax |-> l.ordinary_tax,
     ltcg_tax |-> l.ltcg_tax,
     niit_tax |-> l.niit_tax,
     total_federal_tax |-> l.total_federal_tax,
     taxable_income |-> l.total_taxable_income,
     taxable_ordinary_income |-> l.taxable_ordinary_income,
     taxable_ltcg_income |-> l.taxable_capital_gains,
     agi |-> l.capital.agi,
     itemized_deductions |-> l.itemized_deductions,
     standard_deduction |-> l.standard_deduction,
     deduction_used |-> l.deduction_used,
     effective_tax_rate |-> l.effective_tax_rate,
     effective_tax_rate_agi |-> l.effective_tax_rate_agi,
     marginal_tax_rate |-> l.marginal_rate,
     ltcg_tax_rate |-> l.ltcg_tax_rate,
     inv_int_carryforward |-> l.deductions.inv_int_carryforward,
     st_loss_carryforward |-> l.capital.st_loss_carry_forward,
     lt_loss_carryforward |-> l.capital.lt_loss_carry_forward]

\* get_available_years and get_filing_statuses, lines 63-71: the statuses of
\* the first year's ordinary-income brackets.
get_filing_statuses(tax_data) ==
    LET first == CHOOSE y \in DOMAIN tax_data : \A z \in DOMAIN tax_data : y <= z
    IN  DOMAIN tax_data[first].ordinary_income_brackets

\* TRUE when every table calc indexes by filing status has the status.
HasStatus(year_data, fs) ==
    /\ fs \in DOMAIN year_data.standard_deductions
    /\ fs \in DOMAIN year_data.ordinary_income_brackets
    /\ fs \in DOMAIN year_data.long_term_capital_gains_brackets
    /\ fs \in DOMAIN year_data.net_investment_income_tax.thresholds

\* USIncomeTaxCalculator.calc, lines 281-479: what it returns (or raises),
\* with its local variables.
us_calc(tax_data, a) ==
    IF a.tax_year \notin DOMAIN tax_data
    THEN [result |-> ValueError, locals |-> NoResult]
    ELSE IF a.filing_status \notin get_filing_statuses(tax_data)
    THEN [result |-> ValueError, locals |-> NoResult]
    ELSE IF ~HasStatus(tax_data[a.tax_year], a.filing_status)
    THEN [result |-> KeyError, locals |-> NoResult]
    ELSE Only({[result |-> us_tax_result(a, l), locals |-> l] :
                  l \in {USLocals(tax_data[a.tax_year], a)}})

----------------------------------------------------------------------------
(* Parameter data.  data/ma_tax_data.json and data/us_tax_data.json are     *)
(* loaded, not computed; the tables here are the synthetic ones of the      *)
(* documented scenarios.                                                    *)

\* The first tax year of the tables.
FirstYear == 2023

\* How many tax years main() is run for in a row.
MaxYears == 2

Years == FirstYear .. (FirstYear + MaxYears)

\* MAIncomeTaxCalculator.tax_years: 5% on ordinary income and long-term
\* gains, 8.5% on short-term gains, exemption 24,000 for MFJ, at most 2,000
\* of losses against investment income; no surtax in the first year, 4% from
\* 1,000,000 in the later ones.
MATaxYears ==
    [y \in Years |->
        [standard_exemption |-> [MFJ |-> Dollars(24000), single |-> Dollars(12000)],
         max_int_div_adj |-> Dollars(2000),
         surtax_threshold |-> IF y = FirstYear THEN None ELSE Dollars(1000000),
         surtax |-> IF y = FirstYear THEN 0 ELSE 400,
         ordinary_rate |-> 500,
         long_term_rate |-> 500,
         short_term_rate |-> 850]]

USStatuses == {"married_filing_jointly", "married_filing_separately"}

\* USIncomeTaxCalculator.tax_data: ordinary brackets 0-50,000 at 10% and 22%
\* above; long-term brackets 0-40,000 at 0%, 40,000-200,000 at 15% and 20%
\* above; standard deduction 30,000 (15,000 filing separately); SALT cap
\* 10,000; NIIT 3.8% above 250,000 (125,000).
USTaxData ==
    [y \in Years |->
        [ordinary_income_brackets |->
             [fs \in USStatuses |->
                 <<[min |-> 0, max |-> Dollars(50000), rate |-> 1000],
                   [min |-> Dollars(50000), max |-> None, rate |-> 2200]>>],
         long_term_capital_gains_brackets |->
             [fs \in USStatuses |->
                 <<[min |-> 0, max |-> Dollars(40000), rate |-> 0],
                   [min |-> Dollars(40000), max |-> Dollars(200000), rate |-> 1500],
                   [min |-> Dollars(200000), max |-> None, rate |-> 2000]>>],
         standard_deductions |->
             [fs \in USStatuses |->
                 IF fs = "married_filing_separately"
                 THEN Dollars(15000) ELSE Dollars(30000)],
         salt_deduction |-> [max |-> Dollars(10000)],
         net_investment_income_tax |->
             [thresholds |->
                  [fs \in USStatuses |->
                      IF fs = "married_filing_separately"
                      THEN Dollars(125000) ELSE Dollars(250000)],
              rate |-> 380]]]

----------------------------------------------------------------------------
(* State *)

\* create_carryforward_file(year), src/utils.py lines 58-68: all keys 0.
ZeroCarryforward ==
    [ma_capital_loss_carryforward |-> 0,
     us_inv_int_carryforward |-> 0,
     us_short_term_loss_carryforward |-> 0,
     us_long_term_loss_carryforward |-> 0]

\* The keyword arguments main() passes to MAIncomeTaxCalculator.calc,
\* src/tax_calc.py lines 73-82; filing_status and custom_standard_deduction
\* are left at their defaults.
MAArgsOfMain(inp, py) ==
    [tax_year |-> inp.tax_year,
     ordinary_income |-> inp.income_wages + inp.income_other,
     investment_income |-> inp.income_int + inp.income_div + inp.income_inv_other,
     short_term_gains |-> inp.cg_short_term,
     long_term_gains |-> inp.cg_long_term,
     deductions |-> inp.deduct_charity,
     py_capital_loss_carryforward |-> py.ma_capital_loss_carryforward,
     filing_status |-> "MFJ",
     custom_standard_deduction |-> None]

\* The keyword arguments main() passes to USIncomeTaxCalculator.calc,
\* src/tax_calc.py lines 86-91: the inputs, the state tax and the three
\* federal carryforwards.
USArgsOfMain(inp, py, ma_income_tax) ==
    [tax_year |-> inp.tax_year,
     filing_status |-> inp.filing_status,
     income_wages |-> inp.income_wages,
     income_int |-> inp.income_int,
     income_div |-> inp.income_div,
     income_div_qualified |-> inp.income_div_qualified,
     income_inv_other |-> inp.income_inv_other,
     income_other |-> inp.income_other,
     cg_short_term |-> inp.cg_short_term,
     cg_long_term |-> inp.cg_long_term,
     deduct_medical |-> inp.deduct_medical,
     deduct_property_tax |-> inp.deduct_property_tax,
     deduct_state_income_tax |-> ma_income_tax,
     deduct_charity |-> inp.deduct_charity,
     deduct_margin_int |-> inp.deduct_margin_int,
     deduct_mortgage_int |-> inp.deduct_mortgage_int,
     deduct_mortgage_rate |-> inp.deduct_mortgage_rate,
     deduct_mortgage_orig_year |-> inp.deduct_mortgage_orig_year,
     py_inv_int_carryforward |-> py.us_inv_int_carryforward,
     py_short_term_loss_carryforward |-> py.us_short_term_loss_carryforward,
     py_long_term_loss_carryforward |-> py.us_long_term_loss_carryforward]

\* The record main() writes for the next tax year, src/tax_calc.py lines 93-99.
NextCarryforward(ma, us) ==
    [ma_capital_loss_carryforward |-> ma.capital_loss_carryforward,
     us_inv_int_carryforward |-> us.inv_int_carryforward,
     us_short_term_loss_carryforward |-> us.st_loss_carryforward,
     us_long_term_loss_carryforward |-> us.lt_loss_carryforward]

----------------------------------------------------------------------------
(* Inputs enumerated *)

\* Losses are 0, -5,000, ... and gains 4,000, 8,000, ...
MaxLossK == 2
MaxGainK == 2
CapitalResults ==
    {Dollars(0 - 5000 * k) : k \in 0..MaxLossK}
        \cup {Dollars(4000 * k) : k \in 1..MaxGainK}

\* A current-year input file (the keys of CY_INPUT_FILE_EXPECTED_KEYS,
\* src/utils.py lines 44-49) with the fields the capital-gains rules read
\* varied and the rest fixed.
CapitalInputs(year) ==
    {[tax_year |-> year,
      filing_status |-> "married_filing_jointly",
      income_wages |-> Dollars(100000),
      income_int |-> interest[1],
      income_div |-> 0,
      income_div_qualified |-> 0,
      income_inv_other |-> 0,
      income_other |-> 0,
      cg_short_term |-> st,
      cg_long_term |-> lt,
      deduct_medical |-> 0,
      deduct_property_tax |-> 0,
      deduct_charity |-> 0,
      deduct_margin_int |-> interest[2],
      deduct_mortgage_int |-> 0,
      deduct_mortgage_rate |-> 0,
      deduct_mortgage_orig_year |-> 0] :
        st \in CapitalResults, lt \in CapitalResults,
        interest \in {<<0, 0>>, <<Dollars(3000), Dollars(5000)>>}}

\* The carryforward files a first run can find: amounts of an earlier year,
\* none negative.
InitialCarryforwards ==
    {[ma_capital_loss_carryforward |-> m,
      us_inv_int_carryforward |-> 0,
      us_short_term_loss_carryforward |-> s,
      us_long_term_loss_carryforward |-> 0] :
        m \in {0, Dollars(3000)}, s \in {0, Dollars(2000)}}

----------------------------------------------------------------------------
(* main(), src/tax_calc.py lines 47-99: one run for the tax year, which reads *)
(* the year's carryforward file, runs the state engine, then the federal      *)
(* engine with the state tax as a deduction, and writes the next year's file. *)

\* The two engine calls of one run, in order.
RunEngines(inp, py) ==
    LET ma_args == MAArgsOfMain(inp, py)
        ma == ma_calc(MATaxYears, ma_args)
        us_args == USArgsOfMain(inp, py, ma.result.ma_income_tax)
        us == us_calc(USTaxData, us_args)
    IN  [ma_args |-> ma_args, ma |-> ma, us_args |-> us_args, us |-> us]

\* The year's carryforward file does not exist.
NoFile == [none |-> TRUE]

\* What the run ends with when it reads py_data, a local never bound
\* (src/tax_calc.py line 82, src/run_scenarios.py line 71).
UnboundLocalError == [error |-> "UnboundLocalError"]

\* The run that finds no file: create_carryforward_file(tax_year) writes the
\* zero file for the same year, py_data stays unbound, and the first engine
\* call's argument list raises before either engine is called.
MainNoFile ==
    /\ py_data' = NoFile
    /\ inputs' = NoInputs
    /\ ma_taxes' = UnboundLocalError
    /\ us_taxes' = NoResult
    /\ locals' = [ma |-> NoResult, us |-> NoResult]
    /\ carryforward_file' = ZeroCarryforward
    /\ tax_year' = tax_year

Main(inp) ==
    /\ tax_year < FirstYear + MaxYears
    /\ inp.tax_year = tax_year
    /\ IF carryforward_file = NoFile
       THEN MainNoFile
       ELSE \E run \in {RunEngines(inp, carryforward_file)} :
                /\ py_data' = carryforward_file
                /\ inputs' = [ma |-> run.ma_args, us |-> run.us_args]
                /\ ma_taxes' = run.ma.result
                /\ us_taxes' = run.us.result
                /\ locals' = [ma |-> run.ma.locals, us |-> run.us.locals]
                /\ carryforward_file' = NextCarryforward(run.ma.result, run.us.result)
                /\ tax_year' = tax_year + 1
    /\ UNCHANGED probe

Init ==
    /\ tax_year = FirstYear
    /\ carryforward_file \in InitialCarryforwards \cup {NoFile}
    /\ py_data = ZeroCarryforward
    /\ inputs = NoInputs
    /\ ma_taxes = NoResult
    /\ us_taxes = NoResult
    /\ locals = [ma |-> NoResult, us |-> NoResult]
    /\ probe = NoResult

Next == \E inp \in CapitalInputs(tax_year) : Main(inp)

Spec == Init /\ [][Next]_vars

----------------------------------------------------------------------------
(* MAIncomeTaxCalculator.calc called on its own, with arguments drawn from   *)
(* sets that reach every branch of the exemption and surtax rules.           *)

MAArgs ==
    {[tax_year |-> y,
      ordinary_income |-> oi,
      investment_income |-> ii,
      short_term_gains |-> st,
      long_term_gains |-> lt,
      deductions |-> d,
      py_capital_loss_carryforward |-> cf,
      filing_status |-> fs,
      custom_standard_deduction |-> None] :
        y \in {FirstYear, FirstYear + 1},
        oi \in {0, Dollars(24000), Dollars(100000), Dollars(1000000),
               Dollars(1200000)},
        ii \in {0, Dollars(3000)},
        st \in {Dollars(0 - 5000), 0, Dollars(4000), Dollars(30000)},
        lt \in {Dollars(0 - 5000), 0, Dollars(4000), Dollars(30000)},
        d \in {0, Dollars(10000)},
        cf \in {0, Dollars(3000), Dollars(6000)},
        fs \in {"MFJ", "single"}}

InitMA ==
    /\ tax_year = FirstYear
    /\ carryforward_file = ZeroCarryforward
    /\ py_data = ZeroCarryforward
    /\ inputs \in {[ma |-> a, us |-> NoInputs] : a \in MAArgs}
    /\ ma_taxes = NoResult
    /\ us_taxes = NoResult
    /\ locals = [ma |-> NoResult, us |-> NoResult]
    /\ probe = NoResult

CalcMA ==
    /\ ma_taxes = NoResult
    /\ \E run \in {ma_calc(MATaxYears, inputs.ma)} :
           /\ ma_taxes' = run.result
           /\ locals' = [locals EXCEPT !.ma = run.locals]
    /\ UNCHANGED <<tax_year, carryforward_file, py_data, inputs, us_taxes, probe>>

SpecMA == InitMA /\ [][CalcMA]_vars

----------------------------------------------------------------------------
(* USIncomeTaxCalculator.calc called on its own, with the arguments the      *)
(* deduction rules read drawn from sets that reach each rule's branches.     *)

DeductionArgs ==
    {[tax_year |-> FirstYear,
      filing_status |-> fs,
      income_wages |-> wages,
      income_int |-> int,
      income_div |-> 0,
      income_div_qualified |-> 0,
      income_inv_other |-> 0,
      income_other |-> 0,
      cg_short_term |-> 0,
      cg_long_term |-> 0,
      deduct_medical |-> medical,
      deduct_property_tax |-> property,
      deduct_state_income_tax |-> state,
      deduct_charity |-> charity,
      deduct_margin_int |-> margin,
      deduct_mortgage_int |-> mortgage[1],
      deduct_mortgage_rate |-> mortgage[2],
      deduct_mortgage_orig_year |-> mortgage[3],
      py_inv_int_carryforward |-> 0,
      py_short_term_loss_carryforward |-> 0,
      py_long_term_loss_carryforward |-> 0] :
        fs \in USStatuses,
        wages \in {Dollars(80000), Dollars(300000)},
        int \in {0, Dollars(3000)},
        medical \in {0, Dollars(5000), Dollars(10000)},
        property \in {0, Dollars(12000)},
        state \in {0, Dollars(5000)},
        charity \in {0, Dollars(20000)},
        margin \in {0, Dollars(4000)},
        mortgage \in {<<0, 0, 0>>, <<Dollars(40000), 0, 2015>>,
                      <<Dollars(40000), 4000, 2015>>,
                      <<Dollars(40000), 4000, 2018>>}}

InitUS ==
    /\ tax_year = FirstYear
    /\ carryforward_file = ZeroCarryforward
    /\ py_data = ZeroCarryforward
    /\ inputs \in {[ma |-> NoInputs, us |-> a] : a \in DeductionArgs}
    /\ ma_taxes = NoResult
    /\ us_taxes = NoResult
    /\ locals = [ma |-> NoResult, us |-> NoResult]
    /\ probe = NoResult

CalcUS ==
    /\ us_taxes = NoResult
    /\ \E run \in {us_calc(USTaxData, inputs.us)} :
           /\ us_taxes' = run.result
           /\ locals' = [locals EXCEPT !.us = run.locals]
    /\ UNCHANGED <<tax_year, carryforward_file, py_data, inputs, ma_taxes, probe>>

SpecUS == InitUS /\ [][CalcUS]_vars

----------------------------------------------------------------------------
(* _calculate_bracket_tax called on its own: a schedule is drawn, and the    *)
(* method is called on it up to MaxCalls times, each call recorded.          *)

MaxBrackets == 3
MaxCalls == 2

BracketCuts == {Dollars(10000), Dollars(50000), Dollars(90000)}
BracketRates == {0, 1000, 2200}

\* The elements of a set of numbers, ascending.
RECURSIVE Ascending(_)
Ascending(S) ==
    IF S = {} THEN <<>>
    ELSE LET m == CHOOSE x \in S : \A y \in S : x <= y
         IN  <<m>> \o Ascending(S \ {m})

\* The schedule with the given cut points and rates: ascending, contiguous
\* from 0, the last bracket open-ended.
ScheduleOf(cuts, rates) ==
    LET c == Ascending(cuts)
        n == Len(rates)
    IN  [i \in 1..n |->
            [min |-> IF i = 1 THEN 0 ELSE c[i - 1],
             max |-> IF i = n THEN None ELSE c[i],
             rate |-> rates[i]]]

Schedules ==
    UNION {{ScheduleOf(cuts, rates) :
                rates \in [1..(Cardinality(cuts) + 1) -> BracketRates]} :
           cuts \in {C \in SUBSET BracketCuts : Cardinality(C) < MaxBrackets}}

\* Amounts at, one cent below and one cent above every cut point, and some
\* that are zero or negative.
BracketIncomes ==
    {0 - Dollars(1000), 0, 1, Dollars(120000)}
        \cup UNION {{c - 1, c, c + 1} : c \in BracketCuts}

InitBracket ==
    /\ tax_year = FirstYear
    /\ carryforward_file = ZeroCarryforward
    /\ py_data = ZeroCarryforward
    /\ inputs = NoInputs
    /\ ma_taxes = NoResult
    /\ us_taxes = NoResult
    /\ locals = [ma |-> NoResult, us |-> NoResult]
    /\ probe \in {[brackets |-> b, calls |-> <<>>] : b \in Schedules}

BracketTax ==
    /\ Len(probe.calls) < MaxCalls
    /\ \E income \in BracketIncomes :
           probe' = [probe EXCEPT !.calls =
                        Append(@, [income |-> income,
                                   result |-> calculate_bracket_tax(income,
                                                  probe.brackets)])]
    /\ UNCHANGED <<tax_year, carryforward_file, py_data, inputs, ma_taxes,
                   us_taxes, locals>>

SpecBracket == InitBracket /\ [][BracketTax]_vars

----------------------------------------------------------------------------
(* Capital losses and carryforwards *)

\* The prior-year carryforwards a federal call was given are all zero.
NoPriorYear(a) ==
    /\ a.py_short_term_loss_carryforward = 0
    /\ a.py_long_term_loss_carryforward = 0
    /\ a.py_inv_int_carryforward = 0

\* The prior-year carryforwards a federal call was given are non-negative.
PriorYearNonNegative(a) ==
    /\ a.py_short_term_loss_carryforward >= 0
    /\ a.py_long_term_loss_carryforward >= 0
    /\ a.py_inv_int_carryforward >= 0

\* C1: in the federal engine, with every prior-year carryforward 0, a
\* short-term gain is netted against a long-term loss before the 3,000 cap:
\* when the two net to a loss, the net capital result is cg_short_term +
\* cg_long_term, the deduction is min(|net|, 3000), and the carryforward
\* |net| - deduction goes wholly to lt_loss_carryforward, with
\* st_loss_carryforward 0.
C1_FederalSignNetting ==
    (/\ HasResult(us_taxes)
     /\ NoPriorYear(inputs.us)
     /\ inputs.us.cg_short_term > 0
     /\ inputs.us.cg_long_term < 0
     /\ inputs.us.cg_short_term + inputs.us.cg_long_term < 0)
    => LET net == inputs.us.cg_short_term + inputs.us.cg_long_term
           deduction == Min(Abs(net), Dollars(CapitalLossLimit))
       IN  /\ us_taxes.gross_ltcg = net
           /\ locals.us.capital.capital_loss_income_deduction = deduction
           /\ us_taxes.lt_loss_carryforward = Abs(net) - deduction
           /\ us_taxes.st_loss_carryforward = 0

\* C2: in the federal engine, whenever the net capital result after the
\* prior-year carryforwards is a loss, the two carryforwards add up (to the
\* cent, give or take the rounding of each) to capital_loss_carry_forward,
\* which is |net| - min(|net|, 3000).
C2_SplitConservesCarryforward ==
    (/\ HasResult(us_taxes)
     /\ PriorYearNonNegative(inputs.us)
     /\ locals.us.capital.net_ltcg < 0)
    => LET k == locals.us.capital
       IN  /\ k.capital_loss_carry_forward
                  = Abs(k.net_ltcg) - Min(Abs(k.net_ltcg), Dollars(CapitalLossLimit))
           /\ Abs(us_taxes.lt_loss_carryforward + us_taxes.st_loss_carryforward
                      - k.capital_loss_carry_forward) <= 1

\* C3: every outgoing carryforward is non-negative, in each result and in the
\* carryforward file each year of a chain hands to the next.
C3_CarryforwardsNonNegative ==
    /\ HasResult(ma_taxes) => ma_taxes.capital_loss_carryforward >= 0
    /\ HasResult(us_taxes) =>
           /\ us_taxes.inv_int_carryforward >= 0
           /\ us_taxes.st_loss_carryforward >= 0
           /\ us_taxes.lt_loss_carryforward >= 0
    /\ carryforward_file # NoFile =>
           /\ carryforward_file.ma_capital_loss_carryforward >= 0
           /\ carryforward_file.us_inv_int_carryforward >= 0
           /\ carryforward_file.us_short_term_loss_carryforward >= 0
           /\ carryforward_file.us_long_term_loss_carryforward >= 0

\* The state half of C4: a combined capital result that is not a loss leaves
\* no state carryforward.
StateNoLossNoCarryforward ==
    (/\ HasResult(ma_taxes)
     /\ inputs.ma.py_capital_loss_carryforward >= 0
     /\ inputs.ma.short_term_gains + inputs.ma.long_term_gains
            - inputs.ma.py_capital_loss_carryforward >= 0)
    => ma_taxes.capital_loss_carryforward = 0

\* The federal half of C4: a combined capital result that is not a loss leaves
\* no federal capital-loss carryforward.
FederalNoLossNoCarryforward ==
    (/\ HasResult(us_taxes)
     /\ PriorYearNonNegative(inputs.us)
     /\ inputs.us.cg_short_term + inputs.us.cg_long_term
            - inputs.us.py_short_term_loss_carryforward
            - inputs.us.py_long_term_loss_carryforward >= 0)
    => /\ us_taxes.st_loss_carryforward = 0
       /\ us_taxes.lt_loss_carryforward = 0

\* C4: in both engines, when short-term plus long-term less the prior-year
\* capital-loss carryforward(s) is zero or positive, the outgoing capital-loss
\* carryforward is zero.
C4_NoLossNoCarryforward ==
    StateNoLossNoCarryforward /\ FederalNoLossNoCarryforward

\* C5: in the state engine no value is created or destroyed by netting: sign
\* netting leaves the sum of the two balances unchanged, and after the
\* carryforward is absorbed the two balances plus the carryforward applied
\* against gains equal the two gains that came in.
C5_NettingConservation ==
    HasResult(ma_taxes) =>
        LET a == inputs.ma
            l == locals.ma
            applied == a.py_capital_loss_carryforward - l.loss_carryforward
        IN  /\ l.netted_short_term + l.netted_long_term
                   = a.short_term_gains + a.long_term_gains
            /\ applied >= 0
            /\ l.net_short_term + l.net_long_term + applied
                   = a.short_term_gains + a.long_term_gains

\* A short-term gain was netted against a long-term loss and then reduced by
\* the prior-year carryforward.
C5_Witness ==
    /\ HasResult(ma_taxes)
    /\ inputs.ma.short_term_gains > 0
    /\ inputs.ma.long_term_gains < 0
    /\ locals.ma.netted_long_term = 0
    /\ locals.ma.netted_short_term > 0
    /\ inputs.ma.py_capital_loss_carryforward > 0
    /\ locals.ma.loss_carryforward = 0
    /\ locals.ma.net_short_term
           = locals.ma.netted_short_term - inputs.ma.py_capital_loss_carryforward

----------------------------------------------------------------------------
(* Deduction selection *)

\* C6: the federal deduction applied is max(itemized total, standard
\* deduction), the itemized total being the SALT, mortgage-interest,
\* investment-interest and medical components plus charity; deduction_used is
\* "itemized" exactly when the itemized total was applied, and a tie uses the
\* standard deduction.
C6_DeductionSelection ==
    HasResult(us_taxes) =>
        LET l == locals.us
            d == l.deductions
            itemized_total == d.salt_deduction + d.mortgage_interest_deduction
                                  + d.investment_int_deduction
                                  + d.medical_exp_deduction
                                  + inputs.us.deduct_charity
            standard == USTaxData[inputs.us.tax_year]
                            .standard_deductions[inputs.us.filing_status]
        IN  /\ us_taxes.itemized_deductions = itemized_total
            /\ us_taxes.standard_deduction = standard
            /\ l.total_deductions = Max(itemized_total, standard)
            /\ us_taxes.deduction_used \in {"itemized", "standard"}
            /\ us_taxes.deduction_used = "itemized"
                   <=> (l.total_deductions = itemized_total
                            /\ itemized_total # standard)
            /\ itemized_total = standard => us_taxes.deduction_used = "standard"
            /\ us_taxes.taxable_ordinary_income
                   = Max(0, l.capital.ordinary_income - Max(itemized_total, standard)
                                - inputs.us.income_div_qualified)

\* The itemized total ties with the standard deduction, and the standard
\* deduction is the one recorded.
C6_Witness ==
    /\ HasResult(us_taxes)
    /\ us_taxes.itemized_deductions = us_taxes.standard_deduction
    /\ locals.us.deductions.salt_deduction > 0
    /\ inputs.us.deduct_charity > 0
    /\ us_taxes.deduction_used = "standard"

----------------------------------------------------------------------------
(* Bracket tax *)

RECURSIVE SumSeq(_)
SumSeq(q) == IF q = <<>> THEN 0 ELSE q[1] + SumSeq(Tail(q))

\* The part of the amount that lies in a bracket.
PortionIn(bracket, amount) ==
    Max(0, (IF bracket.max = None THEN amount ELSE Min(bracket.max, amount))
               - bracket.min)

\* The sum over the brackets of rate * max(0, min(max, amount) - min).
SumOverBrackets(brackets, amount) ==
    SumSeq([i \in 1..Len(brackets) |->
               TimesRate(PortionIn(brackets[i], amount), brackets[i].rate)])

\* The bracket that holds the top dollar of a positive amount.
HoldsTopDollar(bracket, amount) ==
    /\ bracket.min < amount
    /\ bracket.max = None \/ amount <= bracket.max

\* C7: _calculate_bracket_tax returns (0, 0) for an amount <= 0; for a
\* positive amount and a valid schedule the tax is the sum over the brackets
\* of rate * max(0, min(max, amount) - min) and the marginal rate is the rate
\* of the bracket holding the top dollar; an amount equal to a bracket's max
\* is taxed wholly within that bracket and reports its rate.
C7_BracketTax ==
    "calls" \in DOMAIN probe =>
        \A n \in 1..Len(probe.calls) :
            LET amount == probe.calls[n].income
                r == probe.calls[n].result
                b == probe.brackets
            IN  /\ amount <= 0 => r.tax = 0 /\ r.marginal_rate = 0
                /\ amount > 0 =>
                       /\ r.tax = SumOverBrackets(b, amount)
                       /\ \A i \in 1..Len(b) :
                              HoldsTopDollar(b[i], amount)
                                  => r.marginal_rate = b[i].rate
                       /\ \A i \in 1..Len(b) :
                              amount = b[i].max =>
                                  /\ r.marginal_rate = b[i].rate
                                  /\ \A j \in (i + 1)..Len(b) :
                                         PortionIn(b[j], amount) = 0

\* 50,000 on the schedule 0-50,000 at 10%, 50,000-open at 22%: tax 5,000 at a
\* marginal rate of 10%.
C7_Witness ==
    /\ "calls" \in DOMAIN probe
    /\ probe.brackets = ScheduleOf({Dollars(50000)}, <<1000, 2200>>)
    /\ \E n \in 1..Len(probe.calls) :
           /\ probe.calls[n].income = Dollars(50000)
           /\ probe.calls[n].result = [tax |-> Dollars(5000), marginal_rate |-> 1000]

\* C8: on one valid schedule, of two amounts the smaller never has the larger
\* bracket tax.
C8_BracketTaxMonotone ==
    "calls" \in DOMAIN probe =>
        \A m, n \in 1..Len(probe.calls) :
            probe.calls[m].income <= probe.calls[n].income
                => probe.calls[m].result.tax <= probe.calls[n].result.tax

\* Two amounts in different brackets of one schedule, the larger one taxed
\* more.
C8_Witness ==
    /\ "calls" \in DOMAIN probe
    /\ Len(probe.brackets) > 1
    /\ \E m, n \in 1..Len(probe.calls) :
           /\ 0 < probe.calls[m].income
           /\ probe.calls[m].income <= probe.brackets[1].max
           /\ probe.calls[n].income > probe.brackets[1].max
           /\ 0 < probe.calls[m].result.tax
           /\ probe.calls[m].result.tax < probe.calls[n].result.tax

----------------------------------------------------------------------------
(* State exemption and surtax *)

\* The state call with one amount of ordinary income and nothing else.
OrdinaryIncomeOnly(a, year, amount) ==
    /\ a.tax_year = year
    /\ a.filing_status = "MFJ"
    /\ a.ordinary_income = amount
    /\ a.investment_income = 0
    /\ a.short_term_gains = 0
    /\ a.long_term_gains = 0
    /\ a.deductions = 0
    /\ a.py_capital_loss_carryforward = 0

C10_Surtax ==
    HasResult(ma_taxes) =>
        LET a == inputs.ma
            p == MATaxYears[a.tax_year]
            agi == locals.ma.adjusted_ordinary_income
                       + locals.ma.adjusted_investment_income
                       + locals.ma.taxable_short_term_gains
                       + locals.ma.taxable_long_term_gains
            surtax == IF ma_taxes.is_surtax THEN p.surtax ELSE 0
        IN  /\ ma_taxes.is_surtax
                   <=> (p.surtax_threshold # None /\ agi >= p.surtax_threshold)
            /\ ma_taxes.ordinary_rate = p.ordinary_rate + surtax
            /\ ma_taxes.long_term_rate = p.long_term_rate + surtax
            /\ ma_taxes.short_term_rate = p.short_term_rate + surtax
            /\ OrdinaryIncomeOnly(a, FirstYear + 1, Dollars(1200000)) =>
                   /\ ma_taxes.is_surtax
                   /\ ma_taxes.ordinary_rate = 900

\* 1,200,000 of ordinary income in a year with a threshold of 1,000,000: the
\* surtax applies and the ordinary rate is 9%.
C10_Witness ==
    /\ HasResult(ma_taxes)
    /\ OrdinaryIncomeOnly(inputs.ma, FirstYear + 1, Dollars(1200000))
    /\ MATaxYears[FirstYear + 1].surtax_threshold = Dollars(1000000)
    /\ ma_taxes.is_surtax
    /\ ma_taxes.ordinary_rate = 900
    /\ ma_taxes.ordinary_tax = TimesRate(Dollars(1200000 - 24000), 900)

----------------------------------------------------------------------------
(* One instance of each engine, called several times.  The instance holds   *)
(* the parameter table it loaded (self.tax_data, self.tax_years); probe      *)
(* keeps the two tables and the calls made so far.                           *)

\* How many calls are made on the instances.
MaxEngineCalls == 3

\* A year no table has.
AbsentYear == FirstYear + MaxYears + 1

\* A per-status table cut down or widened to the statuses S; a status it did
\* not have gets the married_filing_jointly entry.
Retable(t, S) ==
    [fs \in S |-> IF fs \in DOMAIN t THEN t[fs] ELSE t["married_filing_jointly"]]

\* Federal tables whose later years define "single" in place of
\* "married_filing_separately".
USTaxDataUneven ==
    [y \in Years |->
        LET S == IF y = FirstYear THEN USStatuses
                 ELSE {"married_filing_jointly", "single"}
            d == USTaxData[y]
        IN  [ordinary_income_brackets |-> Retable(d.ordinary_income_brackets, S),
             long_term_capital_gains_brackets |->
                 Retable(d.long_term_capital_gains_brackets, S),
             standard_deductions |-> Retable(d.standard_deductions, S),
             salt_deduction |-> d.salt_deduction,
             net_investment_income_tax |->
                 [thresholds |-> Retable(d.net_investment_income_tax.thresholds, S),
                  rate |-> d.net_investment_income_tax.rate]]]

\* Federal tables whose ordinary schedule has no open-ended top bracket.
USTaxDataNoTop ==
    [y \in Years |->
        [USTaxData[y] EXCEPT !.ordinary_income_brackets =
            [fs \in USStatuses |->
                <<[min |-> 0, max |-> Dollars(50000), rate |-> 1000],
                  [min |-> Dollars(50000), max |-> Dollars(100000), rate |-> 2200]>>]]]

\* Federal tables whose ordinary schedule is not ascending.
USTaxDataDescending ==
    [y \in Years |->
        [USTaxData[y] EXCEPT !.ordinary_income_brackets =
            [fs \in USStatuses |->
                <<[min |-> Dollars(50000), max |-> None, rate |-> 2200],
                  [min |-> 0, max |-> Dollars(50000), rate |-> 1000]>>]]]

EngineTables == {USTaxData, USTaxDataUneven, USTaxDataNoTop, USTaxDataDescending}

\* A federal call with wages only.
WagesOnly(year, fs, wages) ==
    [tax_year |-> year, filing_status |-> fs, income_wages |-> wages,
     income_int |-> 0, income_div |-> 0, income_div_qualified |-> 0,
     income_inv_other |-> 0, income_other |-> 0, cg_short_term |-> 0,
     cg_long_term |-> 0, deduct_medical |-> 0, deduct_property_tax |-> 0,
     deduct_state_income_tax |-> 0, deduct_charity |-> 0, deduct_margin_int |-> 0,
     deduct_mortgage_int |-> 0, deduct_mortgage_rate |-> 0,
     deduct_mortgage_orig_year |-> 0, py_inv_int_carryforward |-> 0,
     py_short_term_loss_carryforward |-> 0, py_long_term_loss_carryforward |-> 0]

EngineUSArgs ==
    {WagesOnly(y, fs, w) :
        y \in {FirstYear + 1, AbsentYear},
        fs \in {"married_filing_jointly", "married_filing_separately", "single"},
        w \in {Dollars(80000), Dollars(300000)}}

EngineMAArgs ==
    {[tax_year |-> y, ordinary_income |-> Dollars(100000), investment_income |-> 0,
      short_term_gains |-> 0, long_term_gains |-> 0, deductions |-> 0,
      py_capital_loss_carryforward |-> 0, filing_status |-> fs,
      custom_standard_deduction |-> c] :
        y \in {FirstYear, AbsentYear},
        fs \in {"MFJ", "head_of_household"},
        c \in {None, Dollars(10000)}}

\* A calc that forgets the year it has just computed.
TableAfterCalcDropsYear(table, a) ==
    [y \in DOMAIN table \ {a.tax_year} |-> table[y]]

\* calc assigns to no attribute of self and to no part of the table it reads
\* (src/us_income_tax_calc.py lines 281-479, src/ma_income_tax_calc.py lines
\* 53-208): the instance's table after a call is the table before it.
TableAfterCalc(table, a) == table

InitEngine ==
    /\ tax_year = FirstYear
    /\ carryforward_file = ZeroCarryforward
    /\ py_data = ZeroCarryforward
    /\ inputs = NoInputs
    /\ ma_taxes = NoResult
    /\ us_taxes = NoResult
    /\ locals = [ma |-> NoResult, us |-> NoResult]
    /\ probe \in {[loaded |-> [us |-> t, ma |-> MATaxYears],
                   tax_data |-> t, tax_years |-> MATaxYears, calls |-> <<>>] :
                      t \in EngineTables}

CallUS ==
    /\ Len(probe.calls) < MaxEngineCalls
    /\ \E a \in EngineUSArgs :
           \E run \in {us_calc(probe.tax_data, a)} :
               probe' = [probe EXCEPT
                            !.calls = Append(@, [engine |-> "us", args |-> a,
                                                 table |-> probe.tax_data,
                                                 result |-> run.result]),
                            !.tax_data = TableAfterCalc(@, a)]
    /\ UNCHANGED <<tax_year, carryforward_file, py_data, inputs, ma_taxes,
                   us_taxes, locals>>

CallMA ==
    /\ Len(probe.calls) < MaxEngineCalls
    /\ \E a \in EngineMAArgs :
           \E run \in {ma_calc(probe.tax_years, a)} :
               probe' = [probe EXCEPT
                            !.calls = Append(@, [engine |-> "ma", args |-> a,
                                                 table |-> probe.tax_years,
                                                 result |-> run.result]),
                            !.tax_years = TableAfterCalc(@, a)]
    /\ UNCHANGED <<tax_year, carryforward_file, py_data, inputs, ma_taxes,
                   us_taxes, locals>>

NextEngine == CallUS \/ CallMA

SpecEngine == InitEngine /\ [][NextEngine]_vars

----------------------------------------------------------------------------
(* Configuration errors *)

\* The tables the call reads define the status for the year asked for.
StatusDefined(call) ==
    LET a == call.args
    IN  IF call.engine = "ma"
        THEN a.filing_status \in DOMAIN call.table[a.tax_year].standard_exemption
        ELSE HasStatus(call.table[a.tax_year], a.filing_status)

\* C11: in both engines calc fails, returning no result, exactly when the
\* tax year asked for is not in the parameter data or the filing status is
\* not defined for that year; a status the year defines is accepted.
C11_ConfigurationErrors ==
    "calls" \in DOMAIN probe =>
        \A n \in 1..Len(probe.calls) :
            LET call == probe.calls[n]
            IN  IsError(call.result)
                    <=> (\/ call.args.tax_year \notin DOMAIN call.table
                         \/ ~StatusDefined(call))

\* C12: a run that finds no carryforward record for its tax year does not
\* fail: the four carryforward amounts it uses are 0, a zero record is
\* created, and both engines are evaluated and produce their results.
C12_AbsentCarryforwardRecord ==
    [][carryforward_file = NoFile =>
          /\ py_data' = ZeroCarryforward
          /\ HasResult(ma_taxes')
          /\ HasResult(us_taxes')]_vars

----------------------------------------------------------------------------
(* Malformed parameter data *)

\* A schedule is well formed when it starts at 0, each bracket begins where
\* the one before it ends, and only the last bracket is open-ended.
ValidSchedule(brackets) ==
    /\ Len(brackets) >= 1
    /\ brackets[1].min = 0
    /\ brackets[Len(brackets)].max = None
    /\ \A i \in 1..(Len(brackets) - 1) :
           /\ brackets[i].max # None
           /\ brackets[i].min < brackets[i].max
           /\ brackets[i + 1].min = brackets[i].max

\* The federal call reads a schedule of its table that is not well formed.
ReadsMalformedSchedule(call) ==
    /\ call.engine = "us"
    /\ call.args.tax_year \in DOMAIN call.table
    /\ HasStatus(call.table[call.args.tax_year], call.args.filing_status)
    /\ LET d == call.table[call.args.tax_year]
           fs == call.args.filing_status
       IN  \/ ~ValidSchedule(d.ordinary_income_brackets[fs])
           \/ ~ValidSchedule(d.long_term_capital_gains_brackets[fs])

\* C13: when a bracket schedule of the parameter data is malformed (not
\* ascending and contiguous, or without an open-ended top bracket) the
\* federal engine fails with an error and produces no result.
C13_MalformedScheduleFails ==
    "calls" \in DOMAIN probe =>
        \A n \in 1..Len(probe.calls) :
            ReadsMalformedSchedule(probe.calls[n]) => IsError(probe.calls[n].result)

\* The example of the claim: income above the last bracket's max is left
\* untaxed and the marginal rate returned is 0.
C13_UntaxedAboveLastMax ==
    /\ "calls" \in DOMAIN probe
    /\ \E n \in 1..Len(probe.calls) :
           /\ ReadsMalformedSchedule(probe.calls[n])
           /\ HasResult(probe.calls[n].result)
           /\ probe.calls[n].result.taxable_ordinary_income > Dollars(100000)
           /\ probe.calls[n].result.ordinary_tax = Dollars(16000)
           /\ probe.calls[n].result.marginal_tax_rate = 0

----------------------------------------------------------------------------
(* Determinism *)

----------------------------------------------------------------------------
(* Capital-loss deduction against ordinary income *)

\* C15: when the federal net capital result is negative, the capital-loss
\* deduction min(|net|, 3000) reduces the ordinary income that is taxed:
\* taxable_ordinary_income = max(0, ordinary income - capital-loss deduction
\* - total deductions - qualified dividends).
C15_CapitalLossReducesTaxedIncome ==
    (/\ HasResult(us_taxes)
     /\ locals.us.capital.net_ltcg < 0)
    => /\ locals.us.capital.capital_loss_income_deduction
              = Min(Abs(locals.us.capital.net_ltcg), Dollars(CapitalLossLimit))
       /\ us_taxes.taxable_ordinary_income
              = Max(0, locals.us.capital.ordinary_income
                       - locals.us.capital.capital_loss_income_deduction
                       - locals.us.total_deductions
                       - inputs.us.income_div_qualified)

----------------------------------------------------------------------------
(* State investment-income offset *)

\* C16: the offset balance (carryforward not absorbed plus the negative
\* short- and long-term balances left) equals the amount by which investment
\* income was reduced plus the new capital_loss_carryforward: no loss is
\* consumed without reducing income.
C16_OffsetConservesLoss ==
    HasResult(ma_taxes) =>
        locals.ma.offset_balance
            = (inputs.ma.investment_income - locals.ma.adjusted_investment_income)
              + ma_taxes.capital_loss_carryforward

----------------------------------------------------------------------------
(* State carryforward absorption order *)

\* What absorption took from the short-term balance, and from the long-term.
AbsorbedShort == locals.ma.netted_short_term - locals.ma.net_short_term
AbsorbedLong == locals.ma.netted_long_term - locals.ma.net_long_term

\* C17: after sign netting, a positive prior-year carryforward is applied
\* first to a positive short-term balance, up to min(balance, carryforward);
\* only what is left of it is applied to a positive long-term balance; the
\* long-term balance is not reduced while a positive short-term balance
\* remains; negative balances are not touched; the unused carryforward is
\* what remains.
C17_AbsorptionOrder ==
    (HasResult(ma_taxes) /\ inputs.ma.py_capital_loss_carryforward > 0) =>
        LET cf == inputs.ma.py_capital_loss_carryforward
            l == locals.ma
        IN  /\ AbsorbedShort = IF l.netted_short_term > 0
                               THEN Min(l.netted_short_term, cf) ELSE 0
            /\ AbsorbedLong = IF l.netted_long_term > 0
                              THEN Min(l.netted_long_term, cf - AbsorbedShort) ELSE 0
            /\ AbsorbedLong > 0 => l.net_short_term <= 0
            /\ l.netted_short_term <= 0 => l.net_short_term = l.netted_short_term
            /\ l.netted_long_term <= 0 => l.net_long_term = l.netted_long_term
            /\ l.loss_carryforward = cf - AbsorbedShort - AbsorbedLong

\* A carryforward larger than the short-term gain: the short-term gain is
\* absorbed whole and part of the long-term gain with what is left.
C17_Witness ==
    /\ HasResult(ma_taxes)
    /\ locals.ma.netted_short_term > 0
    /\ locals.ma.netted_long_term > 0
    /\ inputs.ma.py_capital_loss_carryforward > locals.ma.netted_short_term
    /\ AbsorbedShort = locals.ma.netted_short_term
    /\ AbsorbedLong > 0
    /\ locals.ma.net_long_term > 0

----------------------------------------------------------------------------
(* Direct calls of the federal engine with long-term gains and qualified    *)
(* dividends stacked on ordinary income around the LTCG bracket boundaries. *)

GainsArgs ==
    {[WagesOnly(FirstYear, fs, wages) EXCEPT
          !.income_div = q, !.income_div_qualified = q,
          !.cg_short_term = st, !.cg_long_term = lt] :
        fs \in USStatuses,
        wages \in {Dollars(20000), Dollars(50000), Dollars(100000), Dollars(220000),
                  Dollars(250000)},
        q \in {0, Dollars(5000)},
        st \in {0, Dollars(5000)},
        lt \in {Dollars(0 - 5000), 0, Dollars(10000), Dollars(30000),
               Dollars(150000), Dollars(300000)}}

InitGains ==
    /\ tax_year = FirstYear
    /\ carryforward_file = ZeroCarryforward
    /\ py_data = ZeroCarryforward
    /\ inputs \in {[ma |-> NoInputs, us |-> a] : a \in GainsArgs}
    /\ ma_taxes = NoResult
    /\ us_taxes = NoResult
    /\ locals = [ma |-> NoResult, us |-> NoResult]
    /\ probe = NoResult

SpecGains == InitGains /\ [][CalcUS]_vars

----------------------------------------------------------------------------
(* Income-stacked tax on long-term gains *)

\* The amounts the rule taxes bracket by bracket, from bracket i on:
\* max(0, min(total, max) - max(min, floor)) capped by the gains not yet
\* taxed, the floor moving up to the bracket's max.
RECURSIVE StackedAmounts(_, _, _, _, _)
StackedAmounts(brackets, i, floor, untaxed, total) ==
    IF i > Len(brackets) THEN <<>>
    ELSE LET upper == IF brackets[i].max = None THEN total
                      ELSE Min(total, brackets[i].max)
             amount == Min(Max(0, upper - Max(brackets[i].min, floor)), untaxed)
             next_floor == IF brackets[i].max = None THEN total
                           ELSE Max(floor, brackets[i].max)
         IN  <<amount>> \o StackedAmounts(brackets, i + 1, next_floor,
                                          untaxed - amount, total)

\* The LTCG schedule the call reads.
GainsSchedule ==
    USTaxData[inputs.us.tax_year].long_term_capital_gains_brackets[inputs.us.filing_status]

\* C18: for a valid LTCG schedule the tax on long-term gains is the sum over
\* the brackets of rate times the amount max(0, min(total_taxable_income,
\* bracket_max) - max(bracket_min, floor)), capped by the gains not yet taxed
\* in lower brackets, the floor starting at taxable ordinary income and
\* advancing to each bracket's max; the amounts taxed sum to exactly
\* taxable_capital_gains, each dollar in the bracket it lands in when stacked
\* above ordinary income.
C18_StackedCapitalGains ==
    (/\ HasResult(us_taxes)
     /\ ValidSchedule(GainsSchedule)
     /\ locals.us.taxable_capital_gains > 0)
    => LET l == locals.us
           taxed == l.ltcg_taxed
       IN  /\ taxed = StackedAmounts(GainsSchedule, 1, l.taxable_ordinary_income,
                                     l.taxable_capital_gains, l.total_taxable_income)
           /\ SumSeq(taxed) = l.taxable_capital_gains
           /\ \A i \in 1..Len(GainsSchedule) :
                  taxed[i] = PortionIn(GainsSchedule[i], l.total_taxable_income)
                                 - PortionIn(GainsSchedule[i], l.taxable_ordinary_income)
           /\ us_taxes.ltcg_tax
                  = SumSeq([i \in 1..Len(GainsSchedule) |->
                               TimesRate(taxed[i], GainsSchedule[i].rate)])

\* Gains that start in the 15% bracket above the ordinary income and end in
\* the 20% bracket.
C18_Witness ==
    /\ HasResult(us_taxes)
    /\ locals.us.taxable_ordinary_income > Dollars(40000)
    /\ locals.us.taxable_ordinary_income < Dollars(200000)
    /\ locals.us.total_taxable_income > Dollars(200000)
    /\ locals.us.ltcg_taxed[1] = 0
    /\ locals.us.ltcg_taxed[2] > 0
    /\ locals.us.ltcg_taxed[3] > 0
    /\ us_taxes.ltcg_tax > 0

----------------------------------------------------------------------------
(* Direct calls of the federal engine with margin interest, investment      *)
(* income, short-term results and a prior-year interest carryforward.       *)

InterestArgs ==
    {[WagesOnly(FirstYear, fs, Dollars(100000)) EXCEPT
          !.income_int = int, !.income_div = q, !.income_div_qualified = q,
          !.cg_short_term = st, !.deduct_margin_int = margin,
          !.deduct_charity = charity, !.py_inv_int_carryforward = py] :
        fs \in USStatuses,
        int \in {0, Dollars(3000)},
        q \in {0, Dollars(1000)},
        st \in {Dollars(0 - 2000), 0, Dollars(1000)},
        margin \in {0, Dollars(2000), Dollars(4000)},
        charity \in {0, Dollars(40000)},
        py \in {0, Dollars(2000)}}

InitInterest ==
    /\ tax_year = FirstYear
    /\ carryforward_file = ZeroCarryforward
    /\ py_data = ZeroCarryforward
    /\ inputs \in {[ma |-> NoInputs, us |-> a] : a \in InterestArgs}
    /\ ma_taxes = NoResult
    /\ us_taxes = NoResult
    /\ locals = [ma |-> NoResult, us |-> NoResult]
    /\ probe = NoResult

SpecInterest == InitInterest /\ [][CalcUS]_vars

----------------------------------------------------------------------------
(* Investment-interest deduction *)

\* Net investment income of the call: investment income other than qualified
\* dividends, plus a positive short-term gain.
NetInvestmentIncome ==
    inputs.us.income_int + inputs.us.income_div - inputs.us.income_div_qualified
        + inputs.us.income_inv_other + Max(0, locals.us.capital.cg_short_term)

\* C19: the investment-interest expense is deductible up to net investment
\* income plus the prior-year carryforward, deduction = min(expense, net
\* investment income + prior carryforward); the expense above that cap is the
\* new carryforward; zero expense and zero prior carryforward give 0 and 0.
C19_InvestmentInterestOriginal ==
    HasResult(us_taxes) =>
        LET expense == inputs.us.deduct_margin_int
            py == inputs.us.py_inv_int_carryforward
            deduction == Min(expense, NetInvestmentIncome + py)
        IN  /\ locals.us.deductions.investment_int_deduction = deduction
            /\ us_taxes.inv_int_carryforward = expense - deduction

\* C19 as the code has it: the year's expense and the prior-year carryforward
\* together are deductible up to net investment income, deduction =
\* min(expense + prior carryforward, net investment income); what is not
\* deducted of the two is the new carryforward; zero expense and zero prior
\* carryforward give 0 and 0.
C19_InvestmentInterestAmended ==
    HasResult(us_taxes) =>
        LET expense == inputs.us.deduct_margin_int
            py == inputs.us.py_inv_int_carryforward
            deduction == Min(expense + py, NetInvestmentIncome)
        IN  /\ locals.us.deductions.investment_int_deduction = deduction
            /\ us_taxes.inv_int_carryforward = expense + py - deduction
            /\ (expense = 0 /\ py = 0) =>
                   /\ locals.us.deductions.investment_int_deduction = 0
                   /\ us_taxes.inv_int_carryforward = 0

\* An expense of 4000 and a prior carryforward of 2000 against net investment
\* income of 3000: 3000 is deducted and 3000 carried forward.
C19_Witness ==
    /\ HasResult(us_taxes)
    /\ inputs.us.deduct_margin_int = Dollars(4000)
    /\ inputs.us.py_inv_int_carryforward = Dollars(2000)
    /\ NetInvestmentIncome = Dollars(3000)
    /\ locals.us.deductions.investment_int_deduction = Dollars(3000)
    /\ us_taxes.inv_int_carryforward = Dollars(3000)

----------------------------------------------------------------------------
(* Direct calls of the federal engine with mortgage interest, rates and     *)
(* origination years on both sides of the change of the acquisition limit.  *)

MortgageArgs ==
    {[WagesOnly(FirstYear, fs, Dollars(300000)) EXCEPT
          !.deduct_mortgage_int = interest, !.deduct_mortgage_rate = rate,
          !.deduct_mortgage_orig_year = year] :
        fs \in USStatuses,
        interest \in {0, Dollars(20000), Dollars(40000)},
        rate \in {0, 3000, 4000, 8000},
        year \in {2015, 2017, 2018}}

InitMortgage ==
    /\ tax_year = FirstYear
    /\ carryforward_file = ZeroCarryforward
    /\ py_data = ZeroCarryforward
    /\ inputs \in {[ma |-> NoInputs, us |-> a] : a \in MortgageArgs}
    /\ ma_taxes = NoResult
    /\ us_taxes = NoResult
    /\ locals = [ma |-> NoResult, us |-> NoResult]
    /\ probe = NoResult

SpecMortgage == InitMortgage /\ [][CalcUS]_vars

----------------------------------------------------------------------------
(* Mortgage-interest deduction *)

\* The balance the interest and the rate imply: interest / rate, 0 when the
\* rate is not positive.
ImpliedBalance ==
    IF inputs.us.deduct_mortgage_rate > 0
    THEN MulDiv(inputs.us.deduct_mortgage_int, 100000, inputs.us.deduct_mortgage_rate)
    ELSE 0

\* The limit of the rule: 750,000 (375,000 married filing separately) from
\* 2018, or in 2017 with a positive implied balance; 1,000,000 (500,000)
\* otherwise.
RuleLimit ==
    LET separate == inputs.us.filing_status = "married_filing_separately"
        year == inputs.us.deduct_mortgage_orig_year
    IN  IF year >= 2018 \/ (year = 2017 /\ ImpliedBalance > 0)
        THEN (IF separate THEN Dollars(375000) ELSE Dollars(750000))
        ELSE (IF separate THEN Dollars(500000) ELSE Dollars(1000000))

\* C20: the mortgage-interest deduction is the full interest when the implied
\* balance interest / rate is at most the acquisition limit, and interest *
\* limit / balance otherwise; it never exceeds the interest paid, and a zero
\* rate yields the full interest.
C20_MortgageInterest ==
    (HasResult(us_taxes) /\ inputs.us.deduct_mortgage_int > 0) =>
        LET interest == inputs.us.deduct_mortgage_int
            deduction == locals.us.deductions.mortgage_interest_deduction
        IN  /\ ImpliedBalance <= RuleLimit => deduction = interest
            /\ ImpliedBalance > RuleLimit =>
                   /\ deduction = MulDiv(interest, RuleLimit, ImpliedBalance)
                   /\ deduction = MulDiv(RuleLimit, inputs.us.deduct_mortgage_rate, 100000)
                   /\ deduction < interest
            /\ deduction <= interest
            /\ inputs.us.deduct_mortgage_rate = 0 => deduction = interest

\* A 2017 mortgage whose implied balance of 1,000,000 is above the 750,000
\* limit: 30,000 of the 40,000 interest is deductible.
C20_Witness ==
    /\ HasResult(us_taxes)
    /\ inputs.us.filing_status = "married_filing_jointly"
    /\ inputs.us.deduct_mortgage_orig_year = 2017
    /\ inputs.us.deduct_mortgage_int = Dollars(40000)
    /\ ImpliedBalance = Dollars(1000000)
    /\ locals.us.deductions.mortgage_interest_deduction = Dollars(30000)

----------------------------------------------------------------------------
(* Direct calls of the federal engine with medical expenses of either sign  *)
(* and an AGI that a capital loss can take below zero.                       *)

MedicalArgs ==
    {[WagesOnly(FirstYear, fs, wages) EXCEPT
          !.cg_long_term = lt, !.deduct_medical = medical,
          !.deduct_charity = charity] :
        fs \in USStatuses,
        wages \in {0, Dollars(50000), Dollars(100000)},
        lt \in {Dollars(0 - 5000), 0, Dollars(10000)},
        medical \in {Dollars(0 - 1000), 0, Dollars(3000), Dollars(5000),
                    Dollars(10000)},
        charity \in {0, Dollars(40000)}}

InitMedical ==
    /\ tax_year = FirstYear
    /\ carryforward_file = ZeroCarryforward
    /\ py_data = ZeroCarryforward
    /\ inputs \in {[ma |-> NoInputs, us |-> a] : a \in MedicalArgs}
    /\ ma_taxes = NoResult
    /\ us_taxes = NoResult
    /\ locals = [ma |-> NoResult, us |-> NoResult]
    /\ probe = NoResult

SpecMedical == InitMedical /\ [][CalcUS]_vars

----------------------------------------------------------------------------
(* Medical-expense deduction *)

\* 0.075 of the AGI the call reports.
MedicalFloor == MulDiv(us_taxes.agi, 75, 1000)

\* C21: for every medical expense and every AGI, zero and negative ones
\* included, the medical deduction is max(0, expenses - 0.075 * AGI), AGI
\* being the federal AGI already reduced by the capital-loss deduction.
C21_MedicalOriginal ==
    HasResult(us_taxes) =>
        locals.us.deductions.medical_exp_deduction
            = Max(0, inputs.us.deduct_medical - MedicalFloor)

\* C21 as the code has it: with no medical expenses (zero or negative) the
\* deduction is 0 whatever the AGI; with positive expenses it is
\* max(0, expenses - 0.075 * AGI), AGI being the federal AGI already reduced
\* by the capital-loss deduction.
C21_MedicalAmended ==
    HasResult(us_taxes) =>
        /\ us_taxes.agi = locals.us.capital.ordinary_income
                              + Max(0, locals.us.capital.net_ltcg)
                              - locals.us.capital.capital_loss_income_deduction
        /\ locals.us.deductions.medical_exp_deduction
               = IF inputs.us.deduct_medical <= 0 THEN 0
                 ELSE Max(0, inputs.us.deduct_medical - MedicalFloor)

\* Expenses above the floor of an AGI that the capital-loss deduction has
\* reduced: 10000 against 0.075 * 97000.
C21_Witness ==
    /\ HasResult(us_taxes)
    /\ inputs.us.deduct_medical = Dollars(10000)
    /\ locals.us.capital.capital_loss_income_deduction = Dollars(3000)
    /\ us_taxes.agi = Dollars(97000)
    /\ locals.us.deductions.medical_exp_deduction = Dollars(2725)

\* No expenses and a negative AGI: the deduction is 0, where the formula
\* alone gives 225.
C21_NoExpensesNegativeAGI ==
    /\ HasResult(us_taxes)
    /\ inputs.us.deduct_medical = 0
    /\ us_taxes.agi = Dollars(0 - 3000)
    /\ locals.us.deductions.medical_exp_deduction = 0

----------------------------------------------------------------------------
(* Federal loss absorption over the years *)

\* The run is a year of the chain: either its first year, with no prior
\* federal loss and a loss of one kind only, or a later year with no capital
\* gains or losses of its own.
ChainYear ==
    /\ HasResult(us_taxes)
    /\ py_data # NoFile
    /\ \/ /\ py_data.us_short_term_loss_carryforward = 0
          /\ py_data.us_long_term_loss_carryforward = 0
          /\ \/ inputs.us.cg_short_term < 0 /\ inputs.us.cg_long_term = 0
             \/ inputs.us.cg_short_term = 0 /\ inputs.us.cg_long_term < 0
       \/ /\ inputs.us.cg_short_term = 0
          /\ inputs.us.cg_long_term = 0

\* The loss not yet deducted when the year begins.
RemainingLoss ==
    py_data.us_short_term_loss_carryforward + py_data.us_long_term_loss_carryforward
        - inputs.us.cg_short_term - inputs.us.cg_long_term

\* C22: along a chain of federal runs, each year's st_loss_carryforward and
\* lt_loss_carryforward being the next year's prior-year carryforwards, a net
\* loss (short-term or long-term) of the first year followed by years with
\* no capital results is deducted at min(remaining loss, 3000) a year, and
\* the combined carryforward written for the next year is the remaining loss
\* less that deduction, so that it reaches 0 and the deductions total the
\* loss.
C22_FederalLossAbsorption ==
    ChainYear =>
        LET deduction == Min(RemainingLoss, Dollars(CapitalLossLimit))
        IN  /\ locals.us.capital.capital_loss_income_deduction = deduction
            /\ us_taxes.st_loss_carryforward + us_taxes.lt_loss_carryforward
                   = RemainingLoss - deduction
            /\ carryforward_file.us_short_term_loss_carryforward
                   + carryforward_file.us_long_term_loss_carryforward
                   = RemainingLoss - deduction

\* The chain works for a short-term loss: 10000 lost, 3000 deducted, 7000
\* carried into the next year as a short-term loss.
C22_ShortTermChain ==
    /\ ChainYear
    /\ inputs.us.cg_short_term = Dollars(0 - 10000)
    /\ inputs.us.cg_long_term = 0
    /\ locals.us.capital.capital_loss_income_deduction = Dollars(3000)
    /\ carryforward_file.us_short_term_loss_carryforward = Dollars(7000)
    /\ carryforward_file.us_long_term_loss_carryforward = 0

\* It does not for a long-term loss: 10000 lost, 3000 deducted, and -70
\* carried into the next year.
C22_LongTermChain ==
    /\ ChainYear
    /\ inputs.us.cg_short_term = 0
    /\ inputs.us.cg_long_term = Dollars(0 - 10000)
    /\ locals.us.capital.capital_loss_income_deduction = Dollars(3000)
    /\ carryforward_file.us_short_term_loss_carryforward = 0
    /\ carryforward_file.us_long_term_loss_carryforward = Dollars(0 - 70)

----------------------------------------------------------------------------
(* Net investment income tax *)

\* C23: for non-negative income fields, capital results of either sign and
\* non-negative prior-year loss carryforwards the federal niit_tax is never
\* negative, so total_federal_tax >= ordinary_tax + ltcg_tax >= 0; it is 0
\* whenever AGI is at most the NIIT threshold.
C23_NiitNonNegative ==
    HasResult(us_taxes) =>
        LET threshold ==
                USTaxData[inputs.us.tax_year].net_investment_income_tax.thresholds[inputs.us.filing_status]
        IN  /\ us_taxes.niit_tax >= 0
            /\ us_taxes.total_federal_tax >= us_taxes.ordinary_tax + us_taxes.ltcg_tax
            /\ us_taxes.ordinary_tax + us_taxes.ltcg_tax >= 0
            /\ us_taxes.agi <= threshold => us_taxes.niit_tax = 0

\* Wages of 220000 and a long-term loss of 5000, married filing separately:
\* AGI 217000 is above the threshold of 125000, investment income is -5000
\* and the tax on it -190.
C23_NegativeNiit ==
    /\ HasResult(us_taxes)
    /\ inputs.us.income_wages = Dollars(220000)
    /\ inputs.us.cg_long_term = Dollars(0 - 5000)
    /\ inputs.us.cg_short_term = 0
    /\ inputs.us.income_div = 0
    /\ us_taxes.agi = Dollars(217000)
    /\ us_taxes.niit_tax = Dollars(0 - 190)

----------------------------------------------------------------------------
(* The year chain with no capital results: every year's input file has     *)
(* cg_short_term = cg_long_term = 0, and the first year's carryforward file *)
(* holds a state carryforward that MaxYears years can use up.               *)

QuietInputs(year) ==
    {[WagesOnly(year, "married_filing_jointly", wages) EXCEPT
          !.income_int = int, !.income_div = div, !.deduct_charity = charity] :
        wages \in {Dollars(50000), Dollars(100000)},
        int \in {0, Dollars(1000), Dollars(3000)},
        div \in {0, Dollars(500)},
        charity \in {0, Dollars(5000)}}

QuietCarryforwards ==
    {[ZeroCarryforward EXCEPT !.ma_capital_loss_carryforward = Dollars(1000 * k)] :
        k \in 0..(2 * MaxYears)}

InitQuiet ==
    /\ tax_year = FirstYear
    /\ carryforward_file \in QuietCarryforwards
    /\ py_data = ZeroCarryforward
    /\ inputs = NoInputs
    /\ ma_taxes = NoResult
    /\ us_taxes = NoResult
    /\ locals = [ma |-> NoResult, us |-> NoResult]
    /\ probe = NoResult

NextQuiet == \E inp \in QuietInputs(tax_year) : Main(inp)

\* The run of a year moves the chain on to the next year.  No input of
\* QuietInputs stops main, so a run is possible exactly when a year is left.
RunYear == tax_year < FirstYear + MaxYears /\ tax_year' = tax_year + 1

\* The program is run once for every tax year.
SpecQuiet == InitQuiet /\ [][NextQuiet]_vars /\ WF_tax_year(RunYear)

----------------------------------------------------------------------------
(* State carryforward decay over the years *)

\* The state carryforward in the file for the coming year.
StateCarryforward == carryforward_file.ma_capital_loss_carryforward

\* Every run lowers the carryforward by min(max_int_div_adj, carryforward).
C24_Step ==
    [][StateCarryforward' = StateCarryforward
           - Min(MATaxYears[tax_year].max_int_div_adj, StateCarryforward)
       /\ StateCarryforward' <= StateCarryforward]_vars

C24_Reaches == <>(StateCarryforward = 0)

\* C24: in a chain of state runs with no capital gains or losses, each year's
\* capital_loss_carryforward being the next year's prior-year carryforward,
\* the carryforward never increases, drops by exactly min(max_int_div_adj,
\* carryforward) each year, and reaches 0 after finitely many years.
C24_StateCarryforwardDecay == C24_Step /\ C24_Reaches

\* Two years that use up a carryforward of 3000: 2000 in the first, the
\* remaining 1000 in the second.
C24_Witness ==
    /\ HasResult(ma_taxes)
    /\ inputs.ma.short_term_gains = 0
    /\ inputs.ma.long_term_gains = 0
    /\ tax_year = FirstYear + 2
    /\ py_data.ma_capital_loss_carryforward = Dollars(1000)
    /\ inputs.ma.py_capital_loss_carryforward = Dollars(1000)
    /\ ma_taxes.capital_loss_carryforward = 0
    /\ StateCarryforward = 0

----------------------------------------------------------------------------
(* MAIncomeTaxCalculator.calc called with investment income of either sign  *)
(* and with the exemption of the tables or one passed by the caller.        *)

ExemptionArgs ==
    {[tax_year |-> FirstYear,
      ordinary_income |-> oi,
      investment_income |-> ii,
      short_term_gains |-> st,
      long_term_gains |-> lt,
      deductions |-> d,
      py_capital_loss_carryforward |-> cf,
      filing_status |-> "MFJ",
      custom_standard_deduction |-> custom] :
        oi \in {0, Dollars(20000), Dollars(50000)},
        ii \in {Dollars(0 - 10000), 0, Dollars(3000)},
        st \in {Dollars(0 - 5000), 0, Dollars(4000), Dollars(50000)},
        lt \in {Dollars(0 - 5000), 0, Dollars(4000), Dollars(50000)},
        d \in {0, Dollars(10000)},
        cf \in {0, Dollars(3000)},
        custom \in {None, 0, Dollars(30000), Dollars(0 - 1000)}}

InitExemption ==
    /\ tax_year = FirstYear
    /\ carryforward_file = ZeroCarryforward
    /\ py_data = ZeroCarryforward
    /\ inputs \in {[ma |-> a, us |-> NoInputs] : a \in ExemptionArgs}
    /\ ma_taxes = NoResult
    /\ us_taxes = NoResult
    /\ locals = [ma |-> NoResult, us |-> NoResult]
    /\ probe = NoResult

SpecExemption == InitExemption /\ [][CalcMA]_vars

----------------------------------------------------------------------------
(* The exemption across the three taxable buckets *)

\* C25: in the state engine, for every input with a non-negative exemption,
\* taxable_ordinary, taxable_long_term and taxable_short_term are each >= 0
\* and their sum taxable_income equals max(0, AGI - exemption).
C25_ExemptionUsedOnce ==
    (HasResult(ma_taxes) /\ locals.ma.standard_exemption >= 0) =>
        /\ ma_taxes.taxable_ordinary >= 0
        /\ ma_taxes.taxable_long_term >= 0
        /\ ma_taxes.taxable_short_term >= 0
        /\ ma_taxes.taxable_income =
               ma_taxes.taxable_ordinary + ma_taxes.taxable_long_term
                   + ma_taxes.taxable_short_term
        /\ ma_taxes.taxable_income =
               Max(0, locals.ma.agi - locals.ma.standard_exemption)

\* The same statement for the calls whose ordinary and investment income,
\* after deductions and offset, is not below zero.
C25_NonNegativeIncome ==
    (/\ HasResult(ma_taxes)
     /\ locals.ma.standard_exemption >= 0
     /\ locals.ma.adjusted_ordinary_income
            + locals.ma.adjusted_investment_income >= 0) =>
        /\ ma_taxes.taxable_ordinary >= 0
        /\ ma_taxes.taxable_long_term >= 0
        /\ ma_taxes.taxable_short_term >= 0
        /\ ma_taxes.taxable_income =
               Max(0, locals.ma.agi - locals.ma.standard_exemption)

\* An exemption of 24000 that uses up the short-term gains of 4000, leaves
\* 30000 of the long-term gains of 50000 and none of itself for the rest.
C25_ExemptionSpills ==
    /\ HasResult(ma_taxes)
    /\ locals.ma.standard_exemption > 0
    /\ ma_taxes.taxable_short_term = 0
    /\ locals.ma.taxable_short_term_gains > 0
    /\ ma_taxes.taxable_long_term > 0
    /\ ma_taxes.taxable_long_term < locals.ma.taxable_long_term_gains
    /\ ma_taxes.taxable_ordinary > 0

----------------------------------------------------------------------------
(* The program run year after year on inputs with margin interest, each    *)
(* year reading the carryforward file the year before wrote.                *)

MarginInputs(year) ==
    {[WagesOnly(year, "married_filing_jointly", Dollars(100000)) EXCEPT
          !.income_int = int, !.income_inv_other = other,
          !.cg_short_term = st, !.deduct_margin_int = margin,
          !.deduct_charity = charity] :
        int \in {0, Dollars(3000)},
        other \in {Dollars(0 - 2000), 0},
        st \in {0, Dollars(1000)},
        margin \in {0, Dollars(2000), Dollars(4000)},
        charity \in {0, Dollars(40000)}}

MarginCarryforwards ==
    {[ZeroCarryforward EXCEPT !.us_inv_int_carryforward = c] :
        c \in {0, Dollars(2000)}}

InitMargin ==
    /\ tax_year = FirstYear
    /\ carryforward_file \in MarginCarryforwards
    /\ py_data = ZeroCarryforward
    /\ inputs = NoInputs
    /\ ma_taxes = NoResult
    /\ us_taxes = NoResult
    /\ locals = [ma |-> NoResult, us |-> NoResult]
    /\ probe = NoResult

NextMargin == \E inp \in MarginInputs(tax_year) : Main(inp)

SpecMargin == InitMargin /\ [][NextMargin]_vars

----------------------------------------------------------------------------
(* Investment-interest conservation *)

\* C26: whenever the investment-interest expense or the prior-year
\* carryforward is positive, the deduction allowed plus the new
\* inv_int_carryforward equals the expense plus the prior-year carryforward,
\* and the new carryforward is >= 0; the prior-year carryforward of a year is
\* the carryforward the year before left, which the next year reads in turn.
C26_InvestmentInterestConserved ==
    (/\ HasResult(us_taxes)
     /\ \/ inputs.us.deduct_margin_int > 0
        \/ inputs.us.py_inv_int_carryforward > 0) =>
        /\ inputs.us.py_inv_int_carryforward = py_data.us_inv_int_carryforward
        /\ locals.us.deductions.investment_int_deduction
               + us_taxes.inv_int_carryforward
             = inputs.us.deduct_margin_int + inputs.us.py_inv_int_carryforward
        /\ us_taxes.inv_int_carryforward >= 0
        /\ carryforward_file.us_inv_int_carryforward
             = us_taxes.inv_int_carryforward

\* The second year of a chain: 1000 carried in from the year before and an
\* expense of 2000 against net investment income of 1000 give a deduction of
\* 1000 and 2000 carried on.
C26_Witness ==
    /\ HasResult(us_taxes)
    /\ tax_year = FirstYear + 2
    /\ py_data.us_inv_int_carryforward = Dollars(1000)
    /\ inputs.us.py_inv_int_carryforward = Dollars(1000)
    /\ inputs.us.deduct_margin_int = Dollars(2000)
    /\ locals.us.deductions.investment_int_deduction = Dollars(1000)
    /\ us_taxes.inv_int_carryforward = Dollars(2000)
    /\ carryforward_file.us_inv_int_carryforward = Dollars(2000)

====
